---- MODULE Spec2Model ----
(***************************************************************************)
(* A model of the flow orchestration engine (app/crews/xhs_note/flows.py)  *)
(* and of the LLM client adapter (app/crews/llm/aliyun_llm.py).            *)
(*                                                                         *)
(* Spec     : one invocation of run_xhs_note_flow, stepped at its await    *)
(*            points, against an executor whose batch either raises or     *)
(*            returns one output per task.                                 *)
(* SpecLLM  : one invocation of AliyunLLM.call, one HTTP request per step, *)
(*            against an endpoint that answers each request arbitrarily.   *)
(* SpecShapes : AliyunLLM.call on conversations of every shape.            *)
(* SpecTools : AliyunLLM.call with responses that carry several tool calls.*)
(* SpecConc : concurrent invocations of run_xhs_note_flow and the agent    *)
(*            and task objects they hand to their crews.                   *)
(* SpecService : one invocation of generate_xhs_note_report around the     *)
(*            flow (app/services/xhs_note_service.py).                     *)
(* SpecAuth : verify_api_key (app/core/security.py) on every combination   *)
(*            of configured keys, environment and header.                  *)
(* SpecHarvest : the harvest of a completed visual or edit batch.          *)
(* SpecContent : _run_content_phase against a sequential executor.         *)
(* SpecBuild : the task lists built by the visual and edit phases.         *)
(* SpecReport : _generate_final_report.                                    *)
(* SpecAcall : AliyunLLM.acall on an event loop with another coroutine.    *)
(* SpecSave : _save_uploaded_images on uploads of any file names.          *)
(* SpecPayload : AliyunLLM.call with a tools argument.                     *)
(* SpecCancel : a phase timeout while a task of the batch awaits acall.    *)
(***************************************************************************)
EXTENDS Integers, Sequences, FiniteSets, TLC

VARIABLES
    \* ---- run_xhs_note_flow ----
    idea_text,         \* idea_request.idea_text
    images,            \* idea_request.images, as the sequence of image_ids
    cfg_ok,            \* tasks.yaml holds the per-image description templates
    fpc,               \* position of the flow coroutine
    phases,            \* the phases entered so far, in order
    executor_calls,    \* the crews kicked off so far (Crew.akickoff), in order
    tasks_built,       \* the tasks built so far: <<kind, image_id>>
    visual_by_id,      \* image_id -> harvested visual analysis
    edit_by_id,        \* image_id -> harvested edit plan
    images_visual,     \* aggregated visual list (XhsVisualBatchReport)
    images_edit_plan,  \* aggregated edit list (XhsImageEditBatchReport)
    seo_note,          \* tasks_output[2].pydantic of the content crew
    visual_summary,    \* the summary string returned by the visual phase
    edit_summary,      \* the summary string returned by the edit phase
    result,            \* what run_xhs_note_flow handed to its caller
    duration_obs,      \* observations of crew_execution_seconds{xhs_note_flow}
    error_counter,     \* ai_agent_error_total increments: <<role, error_type>>
    \* ---- AliyunLLM.call ----
    lpc,               \* position of the call: idle, request, returned, raised
    retry_count,       \* self.retry_count
    functions,         \* available_functions is a non-empty table
    max_iterations0,   \* max_iterations of the caller's call()
    max_iterations,    \* max_iterations of the innermost call()
    retry_on_empty,    \* _retry_on_empty of the innermost call()
    empty_retry_count, \* kwargs["_empty_retry_count"] of the innermost call()
    attempt,           \* loop variable of the retry loop
    messages,          \* the conversation, as the sequence of message kinds
    payload,           \* the payload built by the innermost call()
    sent,              \* payloads posted so far, one entry per HTTP request
    seen,              \* the kinds of answers the endpoint gave so far
    last,              \* the kind of the endpoint's latest answer
    completions,       \* calls of call() that reached the retry loop
    outcome,           \* what call() handed to its caller
    \* ---- generate_xhs_note_report ----
    spc,               \* position of the service coroutine
    files,             \* number of uploaded files
    dir_state,         \* base_dir: absent, present or deleted
    cleanups,          \* invocations of _cleanup_temp_directory
    svc_result,        \* what generate_xhs_note_report handed to its caller
    \* ---- concurrent invocations of run_xhs_note_flow ----
    cpc,               \* invocation -> the phase it is about to run
    used,              \* invocation -> the agent and task objects it used
    output_by,         \* module-level task -> invocation that set its output
    observed           \* invocation -> invocations whose outputs it read

flowVars == <<idea_text, images, cfg_ok, fpc, phases, executor_calls, tasks_built,
              visual_by_id, edit_by_id, images_visual, images_edit_plan,
              seo_note, visual_summary, edit_summary, result, duration_obs,
              error_counter>>

llmVars == <<lpc, retry_count, functions, max_iterations0, max_iterations,
             retry_on_empty, empty_retry_count, attempt, messages, payload,
             sent, seen, last, completions, outcome>>

svcVars == <<spc, files, dir_state, cleanups, svc_result>>

concVars == <<cpc, used, output_by, observed>>

\* the functions checked on their own: verify_api_key, the harvest of a
\* completed batch, _run_content_phase, the task lists of the image phases
\* and _generate_final_report; and the coroutine AliyunLLM.acall
VARIABLES
    qpc,               \* position of the function under check
    api_keys,          \* settings.api_keys, as its comma-separated entries
    env,               \* settings.env
    x_api_key,         \* the X-API-Key header of the request
    auth,              \* what verify_api_key returned or raised
    tasks_output,      \* result.tasks_output of a completed batch
    harvested,         \* the map harvested from tasks_output
    summary,           \* the summary harvested from tasks_output
    content_tasks,     \* the tasks handed to the content crew, in order
    content_inputs,    \* the inputs handed to the content crew
    started,           \* the content tasks started so far, with what they saw
    content_outputs,   \* result.tasks_output of the content crew so far
    content_ret,       \* what _run_content_phase returned or raised
    req_idea,          \* idea_request.idea_text of the request whose tasks are built
    req_images,        \* idea_request.images: image_id, file_name, local_path
    req_visual,        \* the visual map handed to the edit phase
    visual_tasks,      \* the task list of the visual crew
    edit_tasks,        \* the task list of the edit crew
    rep_idea,          \* idea_request.idea_text given to _generate_final_report
    rep_plans,         \* edit_batch.images_edit_plan given to it
    rep_seo,           \* the XhsSEOOptimizedNote given to it
    final_report,      \* the report it returned, line by line
    apc,               \* position of the coroutine AliyunLLM.acall
    acall_args,        \* the arguments acall was called with
    acall_ret,         \* what acall returned or raised
    ticks,             \* steps taken by another coroutine of the same loop
    uploads,           \* the file names of the uploads given to _save_uploaded_images
    saved,             \* the XhsImageInput list built so far
    disk,              \* the files of base_dir: path -> index of the upload it holds
    tools,             \* the tools argument of AliyunLLM.call
    wpc                \* the phase that awaits asyncio.wait_for(crew.akickoff(), timeout)

authVars == <<api_keys, env, x_api_key, auth>>

harvestVars == <<tasks_output, harvested, summary>>

contentVars == <<content_tasks, content_inputs, started, content_outputs,
                content_ret>>

buildVars == <<req_idea, req_images, req_visual, visual_tasks, edit_tasks>>

reportVars == <<rep_idea, rep_plans, rep_seo, final_report>>

acallVars == <<apc, acall_args, acall_ret, ticks>>

saveVars == <<uploads, saved, disk>>

toolVars == <<tools>>

waitVars == <<wpc>>

moreVars == <<saveVars, toolVars, waitVars>>

\* the variables of verify_api_key, the harvest, _run_content_phase, the
\* task builders, _generate_final_report and acall
fnRest == <<qpc, authVars, harvestVars, contentVars, buildVars, reportVars,
           acallVars>>

fnVars == <<fnRest, moreVars>>

vars == <<flowVars, llmVars, svcVars, concVars, fnVars>>

----------------------------------------------------------------------------
(* Bounds of the model.                                                    *)

\* Longest image list of a request; image_ids are drawn from 1..MaxImages.
MaxImages == 2

ImageIds == 1..MaxImages

\* Exception types the executor (or asyncio.wait_for) may raise.
ExcTypes == {"TimeoutError", "RuntimeError"}

----------------------------------------------------------------------------
(* Values.                                                                 *)

None == [kind |-> "None"]

\* the caller of run_xhs_note_flow still awaits it
NotReturned == [status |-> "pending", report |-> None, error |-> ""]

\* the caller received the pair (report, error)
Returned(report, error) ==
    [status |-> "returned", report |-> report, error |-> error]

IdeaTexts == {"", "mediterranean diet"}

\* "本次请求未上传任何图片"
NoImagesMsg == "no images uploaded in this request"

\* f"流程执行失败: {type(exc).__name__}: {str(exc)}"
FlowErrorMsg(t) == "flow execution failed: " \o t \o ": " \o "str(exc)"

\* A task output's pydantic: 0 when the structured output did not parse into
\* the expected schema, else the image_id the output itself reports.
Unparsed == 0

TaskOutputs(n) == [1..n -> {Unparsed} \cup ImageIds]

\* a phase summary that has not been assigned yet
Unset == "unset"

\* The raw attribute of the summary task's output: missing (None), an empty
\* string, a text, or a value that is not a string.
SummaryRaws == {"None", "", "summary text", "non-str"}

\* summary = getattr(summary_output, "raw", "") or ""; str(summary) when it
\* is not a string
SummaryOf(raw) ==
    IF raw \in {"None", ""} THEN ""
    ELSE IF raw = "non-str" THEN "str(raw)"
    ELSE raw

\* the X-API-Key header is absent: x_api_key is None
NoHeader == "<absent>"

\* verify_api_key has not been called
NotVerified == [status |-> "pending"]

Requests == UNION {[1..n -> ImageIds] : n \in 0..MaxImages}

Range(s) == {s[i] : i \in DOMAIN s}

EmptyMap == [x \in {} |-> None]

----------------------------------------------------------------------------
(* Pure helpers of the flow.                                               *)

\* (mutant) an output is stored under the position of the task that
\* produced it
RECURSIVE HarvestFromByTask(_, _, _)
HarvestFromByTask(outs, i, m) ==
    IF i > Len(outs) THEN m
    ELSE IF outs[i] = Unparsed THEN HarvestFromByTask(outs, i + 1, m)
    ELSE HarvestFromByTask(outs, i + 1,
             [k \in DOMAIN m \cup {i} |->
                 IF k = i THEN [image_id |-> outs[i], task |-> i]
                 ELSE m[k]])

\* for task_output in tasks_output[:-1]: if isinstance(pydantic, Schema):
\*     by_id[pydantic.image_id] = pydantic
\* outs holds the per-image outputs (the trailing summary output is cut off);
\* a later output overwrites an earlier one that reports the same image_id.
RECURSIVE HarvestFrom(_, _, _)
HarvestFrom(outs, i, m) ==
    IF i > Len(outs) THEN m
    ELSE IF outs[i] = Unparsed THEN HarvestFrom(outs, i + 1, m)
    ELSE HarvestFrom(outs, i + 1,
             [k \in DOMAIN m \cup {outs[i]} |->
                 IF k = outs[i] THEN [image_id |-> outs[i], task |-> i]
                 ELSE m[k]])

Harvest(outs) == HarvestFrom(outs, 1, EmptyMap)

\* (mutant) the edit phase builds a task for every image of the request
HasVisualAlways(by_id, id) == TRUE

\* visual = visual_by_id.get(img.image_id); if not visual: continue
HasVisual(by_id, id) == id \in DOMAIN by_id

\* the per-image edit tasks: one per image of the request, in request order,
\* that has a visual analysis
RECURSIVE EditTaskImages(_, _)
EditTaskImages(imgs, by_id) ==
    IF imgs = <<>> THEN <<>>
    ELSE (IF HasVisual(by_id, Head(imgs)) THEN <<Head(imgs)>> ELSE <<>>)
         \o EditTaskImages(Tail(imgs), by_id)

\* if not (visual and plan): continue
Matched(vis, edt, id) == id \in DOMAIN vis /\ id \in DOMAIN edt

\* the aggregation loop over idea_request.images; which = 1 collects the
\* visual analyses, which = 2 the edit plans
RECURSIVE Aggregate(_, _, _, _)
Aggregate(imgs, vis, edt, which) ==
    IF imgs = <<>> THEN <<>>
    ELSE (IF Matched(vis, edt, Head(imgs))
          THEN <<IF which = 1 THEN vis[Head(imgs)] ELSE edt[Head(imgs)]>>
          ELSE <<>>)
         \o Aggregate(Tail(imgs), vis, edt, which)

\* _generate_final_report: the idea text, the SEO fields, then one block per
\* aggregated edit plan
FinalReport(idea, plans) ==
    [kind |-> "str",
     idea |-> idea,
     seo |-> <<"optimized_title", "optimized_content",
               "optimized_picture_order", "tags">>,
     plan_ids |-> [i \in DOMAIN plans |-> plans[i].image_id]]

\* (mutant) a failure that still hands a degraded report to the caller
FailureResultPartial(t) ==
    Returned(FinalReport("", <<>>), FlowErrorMsg(t))

\* the pair returned by the except branch of run_xhs_note_flow
FailureResult(t) == Returned(None, FlowErrorMsg(t))

\* the pair returned by the empty-images guard
RejectResult == Returned(None, NoImagesMsg)

\* the pair returned on success
SuccessResult(report) == Returned(report, "")

----------------------------------------------------------------------------
(* run_xhs_note_flow, one action per stretch between two await points.     *)

\* _handle_crew_error: one increment per role, labelled with the type name
\* (mutant) only the first role of the phase is counted
HandleCrewErrorFirstRole(t, roles) ==
    error_counter' = Append(error_counter, <<roles[1], t>>)

HandleCrewError(t, roles) ==
    error_counter' = error_counter \o [i \in 1..Len(roles) |-> <<roles[i], t>>]

\* (mutant) the failure path returns without observing the duration
FlowExceptUnmeasured(t) ==
    /\ result' = FailureResult(t)
    /\ fpc' = "error"
    /\ UNCHANGED duration_obs

\* except Exception as exc: observe the duration, return (None, error_msg)
FlowExcept(t) ==
    /\ duration_obs' = duration_obs + 1
    /\ result' = FailureResult(t)
    /\ fpc' = "error"

\* (mutant) the guard sits inside the measured try block
GuardRejectMeasured ==
    /\ fpc = "start"
    /\ images = <<>>
    /\ result' = RejectResult
    /\ duration_obs' = duration_obs + 1
    /\ fpc' = "rejected"
    /\ UNCHANGED <<llmVars, svcVars, concVars, fnVars>>
    /\ UNCHANGED <<visual_summary, edit_summary>>
    /\ UNCHANGED <<idea_text, images, cfg_ok, phases, executor_calls,
                   tasks_built, visual_by_id, edit_by_id, images_visual,
                   images_edit_plan, seo_note, error_counter>>

\* if not idea_request.images: return None, "..."
GuardReject ==
    /\ fpc = "start"
    /\ images = <<>>
    /\ result' = RejectResult
    /\ fpc' = "rejected"
    /\ UNCHANGED <<llmVars, svcVars, concVars, fnVars>>
    /\ UNCHANGED <<visual_summary, edit_summary>>
    /\ UNCHANGED <<idea_text, images, cfg_ok, phases, executor_calls, tasks_built,
                   visual_by_id, edit_by_id, images_visual, images_edit_plan,
                   seo_note, duration_obs, error_counter>>

\* the guard passes; _run_visual_analysis_phase builds n tasks and the
\* summary task and kicks the crew off
VisualSubmit ==
    /\ fpc = "start"
    /\ images # <<>>
    /\ cfg_ok
    /\ phases' = Append(phases, "visual")
    /\ tasks_built' = tasks_built
            \o [i \in 1..Len(images) |-> <<"visual", images[i]>>]
            \o <<<<"visual_summary", 0>>>>
    /\ executor_calls' = Append(executor_calls, "visual")
    /\ fpc' = "visual_wait"
    /\ UNCHANGED <<llmVars, svcVars, concVars, fnVars>>
    /\ UNCHANGED <<visual_summary, edit_summary>>
    /\ UNCHANGED <<idea_text, images, cfg_ok, visual_by_id, edit_by_id, images_visual,
                   images_edit_plan, seo_note, result, duration_obs,
                   error_counter>>

\* a description template is missing: cfg.get("description") is None and
\* None.format(...) raises AttributeError before any crew exists
VisualBuildRaise ==
    /\ fpc = "start"
    /\ images # <<>>
    /\ ~cfg_ok
    /\ phases' = Append(phases, "visual")
    /\ FlowExcept("AttributeError")
    /\ UNCHANGED <<llmVars, svcVars, concVars, fnVars>>
    /\ UNCHANGED <<visual_summary, edit_summary>>
    /\ UNCHANGED <<idea_text, images, cfg_ok, executor_calls, tasks_built, visual_by_id,
                   edit_by_id, images_visual, images_edit_plan, seo_note,
                   error_counter>>

\* (mutant) a failed visual batch keeps the outputs finished so far
VisualRaiseSalvaged ==
    /\ fpc = "visual_wait"
    /\ \E t \in ExcTypes, outs \in TaskOutputs(Len(images)) :
          /\ HandleCrewError(t, <<"xhs_visual_analyst">>)
          /\ FlowExcept(t)
          /\ visual_by_id' = Harvest(outs)
    /\ UNCHANGED <<llmVars, svcVars, concVars, fnVars>>
    /\ UNCHANGED <<visual_summary, edit_summary>>
    /\ UNCHANGED <<idea_text, images, cfg_ok, phases, executor_calls, tasks_built,
                   edit_by_id, images_visual, images_edit_plan, seo_note>>

\* await asyncio.wait_for(crew.akickoff(), timeout) raises
VisualRaise ==
    /\ fpc = "visual_wait"
    /\ \E t \in ExcTypes :
          /\ HandleCrewError(t, <<"xhs_visual_analyst">>)
          /\ FlowExcept(t)
    /\ UNCHANGED <<llmVars, svcVars, concVars, fnVars>>
    /\ UNCHANGED <<visual_summary, edit_summary>>
    /\ UNCHANGED <<idea_text, images, cfg_ok, phases, executor_calls, tasks_built,
                   visual_by_id, edit_by_id, images_visual, images_edit_plan,
                   seo_note>>

\* (mutant) the edit phase without "if not tasks: return {}, ''": the crew
\* is kicked off with the summary task alone
EditEnterNoShortCircuit(by_id) ==
    LET todo == EditTaskImages(images, by_id) IN
    /\ phases' = Append(phases, "edit")
    /\ tasks_built' = tasks_built
            \o [i \in 1..Len(todo) |-> <<"edit", todo[i]>>]
            \o <<<<"edit_summary", 0>>>>
    /\ executor_calls' = Append(executor_calls, "edit")
    /\ fpc' = "edit_wait"
    /\ UNCHANGED <<edit_by_id, edit_summary>>

\* the visual crew returns: harvest; then _run_image_edit_phase builds its
\* tasks and either short-circuits or kicks the edit crew off
EditEnter(by_id) ==
    LET todo == EditTaskImages(images, by_id) IN
    /\ phases' = Append(phases, "edit")
    /\ tasks_built' = tasks_built
            \o [i \in 1..Len(todo) |-> <<"edit", todo[i]>>]
            \o (IF todo = <<>> THEN <<>> ELSE <<<<"edit_summary", 0>>>>)
    /\ IF todo = <<>>
       THEN /\ edit_by_id' = EmptyMap
            /\ edit_summary' = ""
            /\ fpc' = "aggregate"
            /\ UNCHANGED executor_calls
       ELSE /\ executor_calls' = Append(executor_calls, "edit")
            /\ fpc' = "edit_wait"
            /\ UNCHANGED <<edit_by_id, edit_summary>>

VisualDone ==
    /\ fpc = "visual_wait"
    /\ \E outs \in TaskOutputs(Len(images)), raw \in SummaryRaws :
          /\ visual_by_id' = Harvest(outs)
          /\ visual_summary' = SummaryOf(raw)
          /\ EditEnter(Harvest(outs))
    /\ UNCHANGED <<llmVars, svcVars, concVars, fnVars>>
    /\ UNCHANGED <<idea_text, images, cfg_ok, images_visual, images_edit_plan, seo_note,
                   result, duration_obs, error_counter>>

\* (mutant) the edit phase counts its failure but swallows it
EditRaiseSwallowed ==
    /\ fpc = "edit_wait"
    /\ \E t \in ExcTypes : HandleCrewError(t, <<"xhs_image_editor">>)
    /\ edit_by_id' = EmptyMap
    /\ fpc' = "aggregate"
    /\ UNCHANGED <<llmVars, svcVars, concVars, fnVars>>
    /\ UNCHANGED <<visual_summary, edit_summary>>
    /\ UNCHANGED <<idea_text, images, cfg_ok, phases, executor_calls,
                   tasks_built, visual_by_id, images_visual, images_edit_plan,
                   seo_note, result, duration_obs>>

\* await asyncio.wait_for(crew.akickoff(), timeout) raises in the edit phase
EditRaise ==
    /\ fpc = "edit_wait"
    /\ \E t \in ExcTypes :
          /\ HandleCrewError(t, <<"xhs_image_editor">>)
          /\ FlowExcept(t)
    /\ UNCHANGED <<llmVars, svcVars, concVars, fnVars>>
    /\ UNCHANGED <<visual_summary, edit_summary>>
    /\ UNCHANGED <<idea_text, images, cfg_ok, phases, executor_calls, tasks_built,
                   visual_by_id, edit_by_id, images_visual, images_edit_plan,
                   seo_note>>

EditDone ==
    /\ fpc = "edit_wait"
    /\ \E outs \in TaskOutputs(Len(EditTaskImages(images, visual_by_id))),
          raw \in SummaryRaws :
          /\ edit_by_id' = Harvest(outs)
          /\ edit_summary' = SummaryOf(raw)
    /\ fpc' = "aggregate"
    /\ UNCHANGED <<llmVars, svcVars, concVars, fnVars>>
    /\ UNCHANGED visual_summary
    /\ UNCHANGED <<idea_text, images, cfg_ok, phases, executor_calls, tasks_built,
                   visual_by_id, images_visual, images_edit_plan, seo_note,
                   result, duration_obs, error_counter>>

\* (mutant) the content phase is entered only with a joined image
ContentSubmitNeedsImages ==
    /\ fpc = "aggregate"
    /\ Aggregate(images, visual_by_id, edit_by_id, 1) # <<>>
    /\ images_visual' = Aggregate(images, visual_by_id, edit_by_id, 1)
    /\ images_edit_plan' = Aggregate(images, visual_by_id, edit_by_id, 2)
    /\ phases' = Append(phases, "content")
    /\ executor_calls' = Append(executor_calls, "content")
    /\ fpc' = "content_wait"
    /\ UNCHANGED <<llmVars, svcVars, concVars, fnVars>>
    /\ UNCHANGED <<visual_summary, edit_summary>>
    /\ UNCHANGED <<idea_text, images, cfg_ok, tasks_built, visual_by_id, edit_by_id,
                   seo_note, result, duration_obs, error_counter>>

\* the aggregation loop, then _run_content_phase kicks the content crew off
ContentSubmit ==
    /\ fpc = "aggregate"
    /\ images_visual' = Aggregate(images, visual_by_id, edit_by_id, 1)
    /\ images_edit_plan' = Aggregate(images, visual_by_id, edit_by_id, 2)
    /\ phases' = Append(phases, "content")
    /\ executor_calls' = Append(executor_calls, "content")
    /\ fpc' = "content_wait"
    /\ UNCHANGED <<llmVars, svcVars, concVars, fnVars>>
    /\ UNCHANGED <<visual_summary, edit_summary>>
    /\ UNCHANGED <<idea_text, images, cfg_ok, tasks_built, visual_by_id, edit_by_id,
                   seo_note, result, duration_obs, error_counter>>

ContentRaise ==
    /\ fpc = "content_wait"
    /\ \E t \in ExcTypes :
          /\ HandleCrewError(t, <<"xhs_growth_strategist",
                                  "xhs_content_writer", "xhs_seo_expert">>)
          /\ FlowExcept(t)
    /\ UNCHANGED <<llmVars, svcVars, concVars, fnVars>>
    /\ UNCHANGED <<visual_summary, edit_summary>>
    /\ UNCHANGED <<idea_text, images, cfg_ok, phases, executor_calls, tasks_built,
                   visual_by_id, edit_by_id, images_visual, images_edit_plan,
                   seo_note>>

\* the content crew returns; seo_note = result.tasks_output[2].pydantic,
\* which is None when the SEO output did not parse
ContentDone ==
    /\ fpc = "content_wait"
    /\ \E parsed \in BOOLEAN :
          seo_note' = IF parsed THEN [kind |-> "XhsSEOOptimizedNote"] ELSE None
    /\ fpc' = "assemble"
    /\ UNCHANGED <<llmVars, svcVars, concVars, fnVars>>
    /\ UNCHANGED <<visual_summary, edit_summary>>
    /\ UNCHANGED <<idea_text, images, cfg_ok, phases, executor_calls, tasks_built,
                   visual_by_id, edit_by_id, images_visual, images_edit_plan,
                   result, duration_obs, error_counter>>

\* _generate_final_report, observe the duration, return (final_report, "")
Assemble ==
    /\ fpc = "assemble"
    /\ seo_note # None
    /\ phases' = Append(phases, "assemble")
    /\ duration_obs' = duration_obs + 1
    /\ result' = SuccessResult(FinalReport(idea_text, images_edit_plan))
    /\ fpc' = "done"
    /\ UNCHANGED <<llmVars, svcVars, concVars, fnVars>>
    /\ UNCHANGED <<visual_summary, edit_summary>>
    /\ UNCHANGED <<idea_text, images, cfg_ok, executor_calls, tasks_built, visual_by_id,
                   edit_by_id, images_visual, images_edit_plan, seo_note,
                   error_counter>>

\* seo_note is None: xhsSEOOptimizedNote.optimized_title raises AttributeError
AssembleRaise ==
    /\ fpc = "assemble"
    /\ seo_note = None
    /\ phases' = Append(phases, "assemble")
    /\ FlowExcept("AttributeError")
    /\ UNCHANGED <<llmVars, svcVars, concVars, fnVars>>
    /\ UNCHANGED <<visual_summary, edit_summary>>
    /\ UNCHANGED <<idea_text, images, cfg_ok, executor_calls, tasks_built, visual_by_id,
                   edit_by_id, images_visual, images_edit_plan, seo_note,
                   error_counter>>

FlowInit ==
    /\ idea_text \in IdeaTexts
    /\ images \in Requests
    /\ cfg_ok \in BOOLEAN
    /\ fpc = "start"
    /\ phases = <<>>
    /\ executor_calls = <<>>
    /\ tasks_built = <<>>
    /\ visual_by_id = EmptyMap
    /\ edit_by_id = EmptyMap
    /\ images_visual = <<>>
    /\ images_edit_plan = <<>>
    /\ seo_note = None
    /\ visual_summary = Unset
    /\ edit_summary = Unset
    /\ result = NotReturned
    /\ duration_obs = 0
    /\ error_counter = <<>>

\* no call of AliyunLLM.call is in progress
LLMIdle ==
    /\ lpc = "idle"
    /\ retry_count = 0
    /\ functions = FALSE
    /\ max_iterations0 = 0
    /\ max_iterations = 0
    /\ retry_on_empty = TRUE
    /\ empty_retry_count = 0
    /\ attempt = 0
    /\ messages = <<>>
    /\ payload = None
    /\ sent = <<>>
    /\ seen = {}
    /\ last = "none"
    /\ completions = 0
    /\ outcome = [status |-> "pending"]

\* generate_xhs_note_report is not running: the flow is invoked directly
SvcIdle ==
    /\ spc = "idle"
    /\ files = 0
    /\ dir_state = "absent"
    /\ cleanups = 0
    /\ svc_result = NotReturned

\* the names tasks.py binds to Task objects when the module is imported
ModuleTaskNames ==
    {"task_content_strategy", "task_copywriting", "task_seo_optimization"}

\* a single invocation is modelled: no concurrent invocations
ConcIdle ==
    /\ cpc = <<>>
    /\ used = <<>>
    /\ output_by = [t \in ModuleTaskNames |-> 0]
    /\ observed = <<>>

\* verify_api_key has not been called
AuthIdle ==
    /\ api_keys = <<"">>
    /\ env = "development"
    /\ x_api_key = NoHeader
    /\ auth = NotVerified

\* no batch is being harvested on its own
HarvestIdle ==
    /\ tasks_output = <<>>
    /\ harvested = EmptyMap
    /\ summary = Unset

\* _run_content_phase is not under check on its own
ContentIdle ==
    /\ content_tasks = <<>>
    /\ content_inputs = None
    /\ started = <<>>
    /\ content_outputs = <<>>
    /\ content_ret = NotReturned

\* no task list is being built on its own
BuildIdle ==
    /\ req_idea = ""
    /\ req_images = <<>>
    /\ req_visual = EmptyMap
    /\ visual_tasks = <<>>
    /\ edit_tasks = <<>>

\* _generate_final_report is not under check on its own
ReportIdle ==
    /\ rep_idea = ""
    /\ rep_plans = <<>>
    /\ rep_seo = None
    /\ final_report = <<>>

\* AliyunLLM.acall has not been called
AcallIdle ==
    /\ apc = "idle"
    /\ acall_args = None
    /\ acall_ret = [status |-> "pending"]
    /\ ticks = 0

\* _save_uploaded_images is not under check on its own
SaveIdle ==
    /\ uploads = <<>>
    /\ saved = <<>>
    /\ disk = EmptyMap

\* call() was given no tools argument
ToolsIdle == tools = None

\* no phase awaits a batch
WaitIdle == wpc = "idle"

MoreIdle == SaveIdle /\ ToolsIdle /\ WaitIdle

FnIdle ==
    /\ qpc = "idle"
    /\ AuthIdle
    /\ HarvestIdle
    /\ ContentIdle
    /\ BuildIdle
    /\ ReportIdle
    /\ AcallIdle
    /\ MoreIdle

Init == FlowInit /\ LLMIdle /\ SvcIdle /\ ConcIdle /\ FnIdle

Next ==
    \/ GuardReject
    \/ VisualSubmit
    \/ VisualBuildRaise
    \/ VisualRaise
    \/ VisualDone
    \/ EditRaise
    \/ EditDone
    \/ ContentSubmit
    \/ ContentRaise
    \/ ContentDone
    \/ Assemble
    \/ AssembleRaise

Spec == Init /\ [][Next]_vars

----------------------------------------------------------------------------
(* Claims about run_xhs_note_flow, checked under Spec.                     *)

Distinct(s) == \A i, j \in DOMAIN s : s[i] = s[j] => i = j

Occurrences(list, id) == Cardinality({i \in DOMAIN list : list[i].image_id = id})

Position(s, x) == CHOOSE i \in DOMAIN s : s[i] = x

Terminal == fpc \in {"done", "error", "rejected"}

\* C1: every invocation of run_xhs_note_flow ends by returning a pair of
\* which exactly one element is populated: (report, "") or (None, non-empty
\* error). It never raises to its caller and never returns a report together
\* with a non-empty error.
C1_ExactlyOnePopulated ==
    /\ result.status \in {"pending", "returned"}
    /\ Terminal <=> result.status = "returned"
    /\ result.status = "returned" =>
          \/ result.report # None /\ result.report.kind = "str"
                                  /\ result.error = ""
          \/ result.report = None /\ result.error # ""
    /\ fpc = "done" => result.report # None
    /\ fpc \in {"error", "rejected"} => result.report = None

\* the content phase raised after both image phases had succeeded, and the
\* caller received (None, error)
C1_Witness ==
    /\ fpc = "error"
    /\ executor_calls = <<"visual", "edit", "content">>
    /\ result.status = "returned"
    /\ result.report = None
    /\ result.error = FlowErrorMsg("TimeoutError")

PhaseOrder == <<"visual", "edit", "content", "assemble">>

\* C2: phases are entered in the order visual, edit, content, assemble, each
\* only after the one before it returned without raising; an executor is only
\* invoked by the phase just entered; a phase failure moves the flow to Error,
\* and from Error no phase is entered, no task built and no executor invoked.
C2_PhaseOrder ==
    [][ /\ phases' # phases =>
             /\ Len(phases') = Len(phases) + 1
             /\ phases' = SubSeq(PhaseOrder, 1, Len(phases'))
             /\ result.status = "pending"
             /\ LET new == phases'[Len(phases')] IN
                   /\ new = "visual" => fpc = "start"
                   /\ new = "edit" => fpc = "visual_wait"
                   /\ new = "content" => fpc = "aggregate"
                   /\ new = "assemble" => fpc = "assemble"
        /\ executor_calls' # executor_calls =>
             /\ phases' # phases
             /\ executor_calls' =
                   Append(executor_calls, phases'[Len(phases')])
        /\ error_counter' # error_counter => fpc' = "error"
        /\ fpc = "error" =>
             /\ fpc' = "error"
             /\ phases' = phases
             /\ executor_calls' = executor_calls
             /\ tasks_built' = tasks_built
             /\ result' = result
      ]_vars

\* the edit phase raised after the visual phase had returned: the flow is in
\* Error and the content phase was never entered
C2_Witness ==
    /\ fpc = "error"
    /\ phases = <<"visual", "edit">>
    /\ executor_calls = <<"visual", "edit">>
    /\ Len(error_counter) = 1

\* C3 (P1, join-by-key): for a request with pairwise distinct image_ids, no
\* edit task is built for an image without an entry in the visual map; after
\* aggregation an image with an entry in both maps occurs exactly once in
\* each aggregated list, every other image occurs in neither, and both lists
\* are in request order and hold the maps' own entries.
C3_JoinByKey ==
    Distinct(images) =>
      /\ \A k \in DOMAIN tasks_built :
            tasks_built[k][1] = "edit" =>
                tasks_built[k][2] \in DOMAIN visual_by_id
      /\ "content" \in Range(phases) =>
            /\ \A id \in ImageIds :
                  LET both == /\ id \in Range(images)
                              /\ id \in DOMAIN visual_by_id
                              /\ id \in DOMAIN edit_by_id
                      n == IF both THEN 1 ELSE 0
                  IN /\ Occurrences(images_visual, id) = n
                     /\ Occurrences(images_edit_plan, id) = n
            /\ Len(images_visual) = Len(images_edit_plan)
            /\ \A i \in DOMAIN images_visual :
                  /\ images_visual[i] = visual_by_id[images_visual[i].image_id]
                  /\ images_edit_plan[i] =
                        edit_by_id[images_edit_plan[i].image_id]
                  /\ images_visual[i].image_id = images_edit_plan[i].image_id
            /\ \A i, j \in DOMAIN images_visual :
                  i < j => Position(images, images_visual[i].image_id)
                             < Position(images, images_visual[j].image_id)

\* two images, the first dropped by the join and the second kept
C3_Witness ==
    /\ Len(images) = 2
    /\ Distinct(images)
    /\ "content" \in Range(phases)
    /\ images[1] \in DOMAIN visual_by_id
    /\ images[1] \notin DOMAIN edit_by_id
    /\ Len(images_visual) = 1
    /\ images_visual[1].image_id = images[2]

\* C4 (P2, empty-images guard): with an empty image list, whatever the idea
\* text, the flow returns (None, the fixed no-images message) and builds no
\* task, enters no phase, invokes no executor, observes no duration and
\* increments no error counter.
C4_EmptyImagesGuard ==
    images = <<>> =>
      /\ fpc \in {"start", "rejected"}
      /\ fpc = "rejected" => result = Returned(None, NoImagesMsg)
      /\ tasks_built = <<>>
      /\ phases = <<>>
      /\ executor_calls = <<>>
      /\ duration_obs = 0
      /\ error_counter = <<>>

\* the guard has rejected a request that carries an idea text but no image
C4_Witness ==
    /\ images = <<>>
    /\ idea_text # ""
    /\ fpc = "rejected"
    /\ result = Returned(None, NoImagesMsg)

----------------------------------------------------------------------------
(* AliyunLLM.call: bounds and values.                                      *)

\* retry_count ranges over 0..MaxRetry
MaxRetry == 1

\* the caller's max_iterations ranges over 0..MaxIter
MaxIter == 3

\* a response carries 1..MaxToolCalls tool calls
MaxToolCalls == 1

\* max_empty_retries = 2
MaxEmptyRetries == 2

\* HTTP statuses of a failed request
ServerErrors == {500, 503}

RateLimited == {429}

ClientErrors == {400, 404}

\* A tool call of a response: it names a function of the table and runs
\* ("ok"), names a function that is not in the table, names a function that
\* raises, carries arguments that are not JSON, or carries no id.
ToolCallKinds == {"ok", "unknown_fn", "fn_raises", "bad_json", "no_id"}

ToolCallLists == UNION {[1..n -> ToolCallKinds] : n \in 1..MaxToolCalls}

Raised(type, msg) == [status |-> "raised", type |-> type, msg |-> msg]

ReturnedContent(c) == [status |-> "returned", content |-> c]

NoError == [status |-> "none"]

\* RuntimeError("Function calling 达到最大迭代次数，可能存在无限循环")
MaxIterationsError == Raised("RuntimeError", "max_iterations")

\* RuntimeError(f"LLM 请求失败: {e}")
RequestFailedError == Raised("RuntimeError", "request_failed")

\* TimeoutError(f"LLM 请求超时（{self.timeout} 秒）")
TimeoutFinalError == Raised("TimeoutError", "request_timeout")

\* ValueError("响应中未找到 choices 字段")
NoChoicesError == Raised("ValueError", "no_choices")

\* ValueError("响应包含 tool_calls 但未提供 available_functions ...")
NoFunctionsError == Raised("ValueError", "no_available_functions")

\* ValueError("响应中未找到 content 字段")
NoContentError == Raised("ValueError", "no_content")

\* ValueError(f"LLM 连续 {max_empty_retries + 1} 次返回空内容 ...")
RepeatedEmptyError == Raised("ValueError", "repeated_empty_content")

\* ValueError("LLM 返回空内容 ...")
EmptyContentError == Raised("ValueError", "empty_content")

\* ValueError(f"tool_call 缺少 id: {tool_call}")
ToolCallNoIdError == Raised("ValueError", "tool_call_without_id")

\* ValueError(f"无法解析函数参数: {e}")
BadArgumentsError == Raised("ValueError", "unparseable_arguments")

\* ValueError raised by _validate_messages
InvalidMessagesError == Raised("ValueError", "invalid_messages")

UserMessage == [role |-> "user", content |-> "text"]

AssistantToolCalls(tcs) ==
    [role |-> "assistant", content |-> "None", tool_calls |-> tcs]

\* (mutant) every tool message carries the id of the first tool call
ToolMessageFirstId(id, content) ==
    [role |-> "tool", tool_call_id |-> 1, content |-> content]

\* {"role": "tool", "tool_call_id": tool_call_id, "content": ...}
ToolMessage(id, content) ==
    [role |-> "tool", tool_call_id |-> id, content |-> content]

\* the conversations a caller passes in: a valid one and one whose entry
\* has an unrecognized role
InitialMessages == {<<UserMessage>>, <<[role |-> "invalid", content |-> "text"]>>}

ValidRoles == {"system", "user", "assistant", "tool"}

\* content that is not None must be a str or a list, and every item of a
\* list must be a dict with a "type" key
ValidContent(m) ==
    "content" \in DOMAIN m =>
      /\ m.content # "number"
      /\ m.content = "list" =>
            \A j \in DOMAIN m.parts : "type" \in DOMAIN m.parts[j]

\* _validate_messages, one message: the if / elif / else chain
ValidMessage(m) ==
    /\ "role" \in DOMAIN m
    /\ m.role \in ValidRoles
    /\ IF m.role = "tool"
       THEN "tool_call_id" \in DOMAIN m /\ "content" \in DOMAIN m
       ELSE IF "content" \notin DOMAIN m /\ "tool_calls" \notin DOMAIN m
       THEN FALSE
       ELSE ValidContent(m)

ValidMessages(msgs) == \A i \in DOMAIN msgs : ValidMessage(msgs[i])

\* a tools argument that is a list of declarations
ToolList(items) == [kind |-> "list", items |-> items]

\* if tools: neither None nor an empty list
Truthy(t) == t # None /\ t.items # <<>>

\* (mutant) the adapter declares native function calling
SupportsFunctionCallingNative == TRUE

\* supports_function_calling(): return False
SupportsFunctionCalling == FALSE

\* payload = {"model": self.model, "messages": messages};
\* if tools and self.supports_function_calling(): payload["tools"] = tools
BuildPayload(msgs) ==
    IF Truthy(tools) /\ SupportsFunctionCalling
    THEN [model |-> "self.model", messages |-> msgs, tools |-> tools.items]
    ELSE [model |-> "self.model", messages |-> msgs]

----------------------------------------------------------------------------
(* AliyunLLM.call: the call, one action per answer of the endpoint.        *)

Raise(err) ==
    /\ lpc' = "raised"
    /\ outcome' = err

\* (mutant) the iteration budget is checked with < instead of <=
IterationsExhaustedStrict(mi) == mi < 0

\* if max_iterations <= 0: raise RuntimeError(...)
IterationsExhausted(mi) == mi <= 0

\* call(): the budget check, the validation and the payload, up to the
\* retry loop
CallEnter(mi, roe, erc, msgs) ==
    /\ max_iterations' = mi
    /\ retry_on_empty' = roe
    /\ empty_retry_count' = erc
    /\ messages' = msgs
    /\ IF IterationsExhausted(mi)
       THEN /\ Raise(MaxIterationsError)
            /\ UNCHANGED <<attempt, payload, completions>>
       ELSE IF ~ValidMessages(msgs)
       THEN /\ Raise(InvalidMessagesError)
            /\ UNCHANGED <<attempt, payload, completions>>
       ELSE /\ payload' = BuildPayload(msgs)
            /\ attempt' = 0
            /\ completions' = completions + 1
            /\ lpc' = "request"
            /\ UNCHANGED outcome

\* requests.post(...) was issued with the current payload and answered
Posted(class) ==
    /\ sent' = Append(sent, payload)
    /\ seen' = seen \cup {class}
    /\ last' = class

\* what an answer that does not leave the retry loop's call keeps
LoopFrame ==
    /\ UNCHANGED <<retry_count, functions, max_iterations0, max_iterations,
                   retry_on_empty, empty_retry_count, messages, payload,
                   completions>>
    /\ UNCHANGED <<flowVars, svcVars, concVars, fnVars>>

\* (mutant) one retry too many
CanRetryOffByOne(att) == att <= retry_count

\* if attempt < self.retry_count
CanRetry(att) == att < retry_count

\* continue with the next attempt, or raise err on the last one
RetryOrRaise(err) ==
    IF CanRetry(attempt)
    THEN /\ attempt' = attempt + 1
         /\ UNCHANGED <<lpc, outcome>>
    ELSE /\ Raise(err)
         /\ UNCHANGED attempt

\* except requests.RequestException as e: RuntimeError(f"LLM 请求失败: {e}")
OnRequestException == RetryOrRaise(RequestFailedError)

\* (mutant) a timeout handled by the generic transport-error clause
OnTimeoutWrapped == RetryOrRaise(RequestFailedError)

\* except requests.Timeout: TimeoutError(...)
OnTimeout == RetryOrRaise(TimeoutFinalError)

\* status >= 500 or status == 429: continue while attempts are left; on the
\* last attempt response.raise_for_status() raises requests.HTTPError inside
\* the try block, where except requests.RequestException catches it
OnRetryableStatus ==
    IF CanRetry(attempt)
    THEN /\ attempt' = attempt + 1
         /\ UNCHANGED <<lpc, outcome>>
    ELSE OnRequestException

\* 400 <= status < 500, not 429: response.raise_for_status() raises
\* requests.HTTPError inside the try block, where except
\* requests.RequestException catches it
OnClientErrorStatus == OnRequestException

AnswerServerError ==
    /\ lpc = "request"
    /\ \E status \in ServerErrors : Posted("5xx")
    /\ OnRetryableStatus
    /\ LoopFrame

AnswerRateLimit ==
    /\ lpc = "request"
    /\ \E status \in RateLimited : Posted("429")
    /\ OnRetryableStatus
    /\ LoopFrame

AnswerClientError ==
    /\ lpc = "request"
    /\ \E status \in ClientErrors : Posted("4xx")
    /\ OnClientErrorStatus
    /\ LoopFrame

\* requests.post raises requests.Timeout
AnswerTimeout ==
    /\ lpc = "request"
    /\ Posted("timeout")
    /\ OnTimeout
    /\ LoopFrame

\* requests.post raises another requests.RequestException
AnswerTransportError ==
    /\ lpc = "request"
    /\ Posted("transport")
    /\ OnRequestException
    /\ LoopFrame

\* (mutant) a response without choices is retried like a transport error
AnswerNoChoicesRetried ==
    /\ lpc = "request"
    /\ Posted("no_choices")
    /\ RetryOrRaise(NoChoicesError)
    /\ LoopFrame

\* 200 without choices
AnswerNoChoices ==
    /\ lpc = "request"
    /\ Posted("no_choices")
    /\ Raise(NoChoicesError)
    /\ UNCHANGED attempt
    /\ LoopFrame

\* 200 whose message has neither tool_calls nor content
AnswerNoContent ==
    /\ lpc = "request"
    /\ Posted("no_content")
    /\ Raise(NoContentError)
    /\ UNCHANGED attempt
    /\ LoopFrame

\* 200 with non-blank content and no tool_calls: return content
AnswerText ==
    /\ lpc = "request"
    /\ Posted("text")
    /\ lpc' = "returned"
    /\ outcome' = ReturnedContent("text")
    /\ UNCHANGED attempt
    /\ LoopFrame

\* (mutant) the re-issued call may re-issue again
AnswerEmptyKeepRetrying ==
    /\ lpc = "request"
    /\ Posted("empty")
    /\ IF retry_on_empty
       THEN IF empty_retry_count >= MaxEmptyRetries
            THEN /\ Raise(RepeatedEmptyError)
                 /\ UNCHANGED <<max_iterations, retry_on_empty,
                                empty_retry_count, messages, attempt, payload,
                                completions>>
            ELSE CallEnter(max_iterations, TRUE, empty_retry_count + 1,
                           messages)
       ELSE /\ Raise(EmptyContentError)
            /\ UNCHANGED <<max_iterations, retry_on_empty, empty_retry_count,
                           messages, attempt, payload, completions>>
    /\ UNCHANGED <<retry_count, functions, max_iterations0>>
    /\ UNCHANGED <<flowVars, svcVars, concVars, fnVars>>

\* 200 with blank content and no tool_calls
AnswerEmpty ==
    /\ lpc = "request"
    /\ Posted("empty")
    /\ IF retry_on_empty
       THEN IF empty_retry_count >= MaxEmptyRetries
            THEN /\ Raise(RepeatedEmptyError)
                 /\ UNCHANGED <<max_iterations, retry_on_empty,
                                empty_retry_count, messages, attempt, payload,
                                completions>>
            ELSE CallEnter(max_iterations, FALSE, empty_retry_count + 1,
                           messages)
       ELSE /\ Raise(EmptyContentError)
            /\ UNCHANGED <<max_iterations, retry_on_empty, empty_retry_count,
                           messages, attempt, payload, completions>>
    /\ UNCHANGED <<retry_count, functions, max_iterations0>>
    /\ UNCHANGED <<flowVars, svcVars, concVars, fnVars>>

\* (mutant) a tool call naming a function outside the table aborts the loop
RECURSIVE ResolveFromAbortUnknown(_, _, _)
ResolveFromAbortUnknown(tcs, i, msgs) ==
    IF i > Len(tcs) THEN [msgs |-> msgs, err |-> NoError]
    ELSE IF tcs[i] = "no_id"
    THEN [msgs |-> msgs, err |-> ToolCallNoIdError]
    ELSE IF tcs[i] = "unknown_fn"
    THEN [msgs |-> msgs, err |-> Raised("KeyError", "unknown_function")]
    ELSE IF tcs[i] = "bad_json"
    THEN [msgs |-> msgs, err |-> BadArgumentsError]
    ELSE ResolveFromAbortUnknown(tcs, i + 1,
             Append(msgs, ToolMessage(i, IF tcs[i] = "fn_raises"
                                         THEN "function_error"
                                         ELSE "function_result")))

\* (mutant) arguments that do not parse are reported inline and the loop
\* goes on
RECURSIVE ResolveFromInlineBadJson(_, _, _)
ResolveFromInlineBadJson(tcs, i, msgs) ==
    IF i > Len(tcs) THEN [msgs |-> msgs, err |-> NoError]
    ELSE IF tcs[i] = "no_id"
    THEN [msgs |-> msgs, err |-> ToolCallNoIdError]
    ELSE IF tcs[i] = "unknown_fn"
    THEN ResolveFromInlineBadJson(tcs, i + 1,
             Append(msgs, ToolMessage(i, "unavailable")))
    ELSE ResolveFromInlineBadJson(tcs, i + 1,
             Append(msgs, ToolMessage(i, IF tcs[i] \in {"fn_raises", "bad_json"}
                                         THEN "function_error"
                                         ELSE "function_result")))

\* the loop over tool_calls of _handle_function_calls: the messages appended
\* and the error that cut the loop short, if any
RECURSIVE ResolveFrom(_, _, _)
ResolveFrom(tcs, i, msgs) ==
    IF i > Len(tcs) THEN [msgs |-> msgs, err |-> NoError]
    ELSE IF tcs[i] = "no_id"
    THEN [msgs |-> msgs, err |-> ToolCallNoIdError]
    ELSE IF tcs[i] = "unknown_fn"
    THEN ResolveFrom(tcs, i + 1, Append(msgs, ToolMessage(i, "unavailable")))
    ELSE IF tcs[i] = "bad_json"
    THEN [msgs |-> msgs, err |-> BadArgumentsError]
    ELSE ResolveFrom(tcs, i + 1,
             Append(msgs, ToolMessage(i, IF tcs[i] = "fn_raises"
                                         THEN "function_error"
                                         ELSE "function_result")))

\* _handle_function_calls(tool_calls, messages, tools, functions, mi)
HandleFunctionCalls(tcs, mi) ==
    IF IterationsExhausted(mi)
    THEN /\ Raise(MaxIterationsError)
         /\ UNCHANGED <<max_iterations, retry_on_empty, empty_retry_count,
                        messages, attempt, payload, completions>>
    ELSE LET r == ResolveFrom(tcs, 1,
                      Append(messages, AssistantToolCalls(tcs))) IN
         IF r.err # NoError
         THEN /\ Raise(r.err)
              /\ messages' = r.msgs
              /\ UNCHANGED <<max_iterations, retry_on_empty,
                             empty_retry_count, attempt, payload, completions>>
         ELSE CallEnter(mi - 1, TRUE, 0, r.msgs)

\* every tool call carries an id and, when it names a function of the
\* table, arguments that parse
WellFormed(tcs) == \A i \in DOMAIN tcs : tcs[i] \notin {"no_id", "bad_json"}

\* 200 whose message carries tool_calls, one of lists
AnswerToolCallsFrom(lists) ==
    /\ lpc = "request"
    /\ \E tcs \in lists :
          /\ Posted(IF WellFormed(tcs) THEN "tool_calls"
                    ELSE "tool_calls_malformed")
          /\ IF functions
             THEN HandleFunctionCalls(tcs, max_iterations - 1)
             ELSE /\ Raise(NoFunctionsError)
                  /\ UNCHANGED <<max_iterations, retry_on_empty,
                                 empty_retry_count, messages, attempt,
                                 payload, completions>>
    /\ UNCHANGED <<retry_count, functions, max_iterations0>>
    /\ UNCHANGED <<flowVars, svcVars, concVars, fnVars>>

\* 200 whose message carries tool_calls
AnswerToolCalls == AnswerToolCallsFrom(ToolCallLists)

\* llm.call(messages, available_functions=..., max_iterations=mi)
LLMCall ==
    /\ lpc = "idle"
    /\ \E mi \in 0..MaxIter, msgs \in InitialMessages :
          /\ max_iterations0' = mi
          /\ CallEnter(mi, TRUE, 0, msgs)
    /\ UNCHANGED <<retry_count, functions, sent, seen, last>>
    /\ UNCHANGED <<flowVars, svcVars, concVars, fnVars>>

\* text that carries an image reference as the image-loading tool emits it
DataUrlText == "add_image_to_content_local data:image/jpeg;base64,/9j/abc"

HttpUrlText == "add_image_to_content_local Observation: http://example.com/img.jpg"

TypedParts == <<[type |-> "text"], [type |-> "image_url"]>>

UntypedParts == <<[type |-> "text"], [text |-> "no type"]>>

\* The shapes of one entry of messages: well-formed entries of every role,
\* entries with an image reference, and entries broken in each of the ways
\* _validate_messages looks for.
MessageShapes ==
    { UserMessage,
      [role |-> "system", content |-> "text"],
      [role |-> "assistant", content |-> DataUrlText],
      [role |-> "assistant", content |-> HttpUrlText],
      [role |-> "user", content |-> "list", parts |-> TypedParts],
      [role |-> "assistant", tool_calls |-> <<"ok">>],
      [role |-> "tool", tool_call_id |-> 1, content |-> "function_result"],
      [role |-> "tool", tool_call_id |-> 1, content |-> "list",
       parts |-> UntypedParts],
      [content |-> "text"],
      [role |-> "invalid", content |-> "text"],
      [role |-> "tool", content |-> "function_result"],
      [role |-> "tool", tool_call_id |-> 1],
      [role |-> "user"],
      [role |-> "user", content |-> "number"],
      [role |-> "user", content |-> "list", parts |-> UntypedParts],
      [role |-> "assistant", content |-> "list", parts |-> UntypedParts] }

\* conversations of one or two entries
Conversations ==
    {<<m>> : m \in MessageShapes} \cup {<<UserMessage, m>> : m \in MessageShapes}

\* llm.call(messages) on a conversation of any shape
CallShaped ==
    /\ lpc = "idle"
    /\ \E mi \in 0..MaxIter, msgs \in Conversations :
          /\ max_iterations0' = mi
          /\ CallEnter(mi, TRUE, 0, msgs)
    /\ UNCHANGED <<retry_count, functions, sent, seen, last>>
    /\ UNCHANGED <<flowVars, svcVars, concVars, fnVars>>

\* no flow is running
FlowIdle ==
    /\ idea_text = ""
    /\ images = <<>>
    /\ cfg_ok = TRUE
    /\ fpc = "idle"
    /\ phases = <<>>
    /\ executor_calls = <<>>
    /\ tasks_built = <<>>
    /\ visual_by_id = EmptyMap
    /\ edit_by_id = EmptyMap
    /\ images_visual = <<>>
    /\ images_edit_plan = <<>>
    /\ seo_note = None
    /\ visual_summary = Unset
    /\ edit_summary = Unset
    /\ result = NotReturned
    /\ duration_obs = 0
    /\ error_counter = <<>>

InitLLM ==
    /\ FlowIdle
    /\ SvcIdle
    /\ ConcIdle
    /\ FnIdle
    /\ lpc = "idle"
    /\ retry_count \in 0..MaxRetry
    /\ functions \in BOOLEAN
    /\ max_iterations0 = 0
    /\ max_iterations = 0
    /\ retry_on_empty = TRUE
    /\ empty_retry_count = 0
    /\ attempt = 0
    /\ messages = <<>>
    /\ payload = None
    /\ sent = <<>>
    /\ seen = {}
    /\ last = "none"
    /\ completions = 0
    /\ outcome = [status |-> "pending"]

NextLLM ==
    \/ LLMCall
    \/ AnswerServerError
    \/ AnswerRateLimit
    \/ AnswerClientError
    \/ AnswerTimeout
    \/ AnswerTransportError
    \/ AnswerNoChoices
    \/ AnswerNoContent
    \/ AnswerText
    \/ AnswerEmpty
    \/ AnswerToolCalls

SpecLLM == InitLLM /\ [][NextLLM]_vars

\* the call on conversations of every shape, with an endpoint that answers
\* with text, with blank content or not at all
NextShapes ==
    \/ CallShaped
    \/ AnswerText
    \/ AnswerEmpty
    \/ AnswerTransportError

SpecShapes == InitLLM /\ [][NextShapes]_vars

----------------------------------------------------------------------------
(* Claims about AliyunLLM.call, checked under SpecLLM.                     *)

Terminated == lpc \in {"returned", "raised"}

\* the answers the retry policy names as retryable HTTP statuses
RetryableStatus == {"5xx", "429"}

\* C5 (P3, retry bound): when the endpoint answers 5xx or 429 on the first N
\* requests and valid content on request N + 1, the call returns that content
\* if N <= retry_count and raises if N > retry_count (request N + 1 is then
\* never sent); it sends at most retry_count + 1 requests, all with the
\* payload of the first.
C5_RetryBound ==
    /\ (seen # {} /\ seen \subseteq RetryableStatus) =>
          /\ Len(sent) <= retry_count + 1
          /\ Len(sent) <= retry_count => lpc = "request"
          /\ Len(sent) = retry_count + 1 => lpc = "raised"
    /\ (seen \subseteq RetryableStatus \cup {"text"} /\ last = "text") =>
          /\ Len(sent) - 1 <= retry_count
          /\ outcome = ReturnedContent("text")
    /\ seen \subseteq RetryableStatus \cup {"text"} =>
          /\ Len(sent) <= retry_count + 1
          /\ \A i \in DOMAIN sent : sent[i] = sent[1]

\* one 5xx answer, then valid content on the retry: the call returned it
C5_Witness ==
    /\ retry_count = 1
    /\ seen = {"5xx", "text"}
    /\ Len(sent) = 2
    /\ sent[2] = sent[1]
    /\ outcome = ReturnedContent("text")

\* C6 (P4, no retry on 4xx): an answer with a 4xx status other than 429 makes
\* the call fail at once, whatever retry_count is; when it is the first answer
\* exactly one request has been made.
C6_NoRetryOnClientError ==
    last = "4xx" =>
      /\ lpc = "raised"
      /\ seen = {"4xx"} => Len(sent) = 1

\* C7: when every attempt was answered 5xx or 429, the error raised after the
\* last attempt is the HTTP status error of that response, not an error of
\* another kind that replaces or wraps it.
C7_HttpErrorRaisedAsIs ==
    (Terminated /\ seen # {} /\ seen \subseteq RetryableStatus) =>
      /\ Len(sent) = retry_count + 1
      /\ outcome.status = "raised"
      /\ outcome.type = "HTTPError"

\* C8: when every attempt times out the call makes exactly retry_count + 1
\* attempts and raises TimeoutError; when every attempt fails with another
\* transport error it makes as many attempts and raises a RuntimeError that
\* wraps the failure, so the two are told apart by type.
C8_TimeoutDistinct ==
    /\ seen = {"timeout"} =>
          /\ Len(sent) <= retry_count + 1
          /\ Len(sent) <= retry_count => lpc = "request"
          /\ Len(sent) = retry_count + 1 => outcome = TimeoutFinalError
    /\ seen = {"transport"} =>
          /\ Len(sent) <= retry_count + 1
          /\ Len(sent) <= retry_count => lpc = "request"
          /\ Len(sent) = retry_count + 1 => outcome = RequestFailedError
    /\ TimeoutFinalError.type = "TimeoutError"
    /\ RequestFailedError.type = "RuntimeError"

\* two attempts, both timed out: TimeoutError reached the caller
C8_Witness ==
    /\ retry_count = 1
    /\ seen = {"timeout"}
    /\ Len(sent) = 2
    /\ lpc = "raised"
    /\ outcome.type = "TimeoutError"

\* C9 (P5, empty-content bound): when every answer is blank content without
\* tool calls, the call fails after exactly max_empty_retries + 1 completion
\* attempts with the repeated-empty-content error.
C9_EmptyContentBound ==
    (Terminated /\ seen = {"empty"}) =>
      /\ completions = MaxEmptyRetries + 1
      /\ outcome = RepeatedEmptyError

C11_ExactBoundary ==
    (functions /\ seen = {"tool_calls"}) =>
      /\ Len(sent) < max_iterations0 => lpc = "request"
      /\ Terminated =>
            /\ Len(sent) = max_iterations0
            /\ outcome = MaxIterationsError

----------------------------------------------------------------------------
(* Claims about the payload and the validation, checked under SpecShapes.  *)

\* some message carries an image reference: a data URL or a bare http(s)
\* URL emitted by the image-loading tool
HasImage(msgs) ==
    \E i \in DOMAIN msgs :
        /\ "content" \in DOMAIN msgs[i]
        /\ msgs[i].content \in {DataUrlText, HttpUrlText}

\* C12 (P7, multimodal model switch): the model id of every outgoing payload
\* is the configured image model id if some message of the exchange carries
\* an image reference, and the configured text model id otherwise.
C12_ModelSwitch ==
    \A i \in DOMAIN sent :
        sent[i].model = IF HasImage(sent[i].messages)
                        THEN "self.image_model"
                        ELSE "self.model"

\* an entry the validation is to reject: a missing or unrecognized role, a
\* tool entry lacking tool_call_id or content, a non-tool entry with neither
\* content nor tool_calls, or (any role) list content with an untyped item
Rejectable(m) ==
    \/ "role" \notin DOMAIN m
    \/ m.role \notin ValidRoles
    \/ m.role = "tool" /\ ("tool_call_id" \notin DOMAIN m \/ "content" \notin DOMAIN m)
    \/ m.role # "tool" /\ "content" \notin DOMAIN m /\ "tool_calls" \notin DOMAIN m
    \/ /\ "content" \in DOMAIN m
       /\ m.content = "list"
       /\ \E j \in DOMAIN m.parts : "type" \notin DOMAIN m.parts[j]

\* C16: every message is validated before dispatch: a call on a conversation
\* with a rejectable entry fails with an error and makes no HTTP request.
C16_ValidateBeforeDispatch ==
    (lpc # "idle" /\ \E i \in DOMAIN messages : Rejectable(messages[i])) =>
      /\ lpc = "raised"
      /\ sent = <<>>

----------------------------------------------------------------------------
(* generate_xhs_note_report: the service around the flow.                  *)

TooFewMsg == "at least one image is required"

TooManyMsg == "too many images"

ServiceErrorMsg == "service exception: str(exc)"

\* _cleanup_temp_directory(base_dir): rmtree when the directory exists
CleanupTempDirectory ==
    /\ cleanups' = cleanups + 1
    /\ dir_state' = IF dir_state = "present" THEN "deleted" ELSE dir_state

\* (mutant) the validation without "if not files"
FilesAcceptedEmpty(n) == n <= MaxImages

\* the two validation checks pass: files is not empty and
\* len(files) <= settings.xhs_max_images
FilesAccepted(n) == n >= 1 /\ n <= MaxImages

\* if not files / if len(files) > settings.xhs_max_images: return None, msg
SvcReject ==
    /\ spc = "start"
    /\ ~FilesAccepted(files)
    /\ spc' = "returned"
    /\ svc_result' = Returned(None, IF files = 0 THEN TooFewMsg ELSE TooManyMsg)
    /\ UNCHANGED <<files, dir_state, cleanups>>
    /\ UNCHANGED <<flowVars, llmVars, concVars, fnVars>>

\* _save_uploaded_images and XhsNoteIdeaRequest(...) succeed, and
\* run_xhs_note_flow(idea_request) is entered with image ids img_0, img_1, ...
SvcSave ==
    /\ spc = "start"
    /\ FilesAccepted(files)
    /\ spc' = "flow"
    /\ dir_state' = "present"
    /\ images' = [i \in 1..files |-> i]
    /\ fpc' = "start"
    /\ UNCHANGED <<files, cleanups, svc_result>>
    /\ UNCHANGED <<idea_text, cfg_ok, phases, executor_calls, tasks_built,
                   visual_by_id, edit_by_id, images_visual, images_edit_plan,
                   seo_note, visual_summary, edit_summary, result,
                   duration_obs, error_counter>>
    /\ UNCHANGED <<llmVars, concVars, fnVars>>

\* _save_uploaded_images raises (mkdir, read or write fails), before or
\* after base_dir was created: except Exception cleans up and returns
SvcSaveRaise ==
    /\ spc = "start"
    /\ FilesAccepted(files)
    /\ \E created \in BOOLEAN :
          /\ cleanups' = cleanups + 1
          /\ dir_state' = IF created THEN "deleted" ELSE "absent"
    /\ spc' = "returned"
    /\ svc_result' = Returned(None, ServiceErrorMsg)
    /\ UNCHANGED files
    /\ UNCHANGED <<flowVars, llmVars, concVars, fnVars>>

\* (mutant) the flow is started but not awaited
FlowReturnedNotAwaited == spc = "flow"

\* final_report, error = await run_xhs_note_flow(idea_request) has a value
FlowReturned == spc = "flow" /\ result.status = "returned"

\* the await returns: clean up, log, return (final_report, error)
SvcFlowDone ==
    /\ FlowReturned
    /\ CleanupTempDirectory
    /\ spc' = "returned"
    /\ svc_result' = Returned(result.report, result.error)
    /\ UNCHANGED files
    /\ UNCHANGED <<flowVars, llmVars, concVars, fnVars>>

InitService ==
    /\ LLMIdle
    /\ ConcIdle
    /\ FnIdle
    /\ idea_text \in IdeaTexts
    /\ images = <<>>
    /\ cfg_ok \in BOOLEAN
    /\ fpc = "idle"
    /\ phases = <<>>
    /\ executor_calls = <<>>
    /\ tasks_built = <<>>
    /\ visual_by_id = EmptyMap
    /\ edit_by_id = EmptyMap
    /\ images_visual = <<>>
    /\ images_edit_plan = <<>>
    /\ seo_note = None
    /\ visual_summary = Unset
    /\ edit_summary = Unset
    /\ result = NotReturned
    /\ duration_obs = 0
    /\ error_counter = <<>>
    /\ spc = "start"
    /\ files \in 0..(MaxImages + 1)
    /\ dir_state = "absent"
    /\ cleanups = 0
    /\ svc_result = NotReturned

NextService ==
    \/ SvcReject
    \/ SvcSave
    \/ SvcSaveRaise
    \/ VisualSubmit
    \/ VisualBuildRaise
    \/ VisualRaise
    \/ VisualDone
    \/ EditRaise
    \/ EditDone
    \/ ContentSubmit
    \/ ContentRaise
    \/ ContentDone
    \/ Assemble
    \/ AssembleRaise
    \/ SvcFlowDone

SpecService == InitService /\ [][NextService]_vars

\* the flow coroutine has been entered and has not returned
FlowExecuting == fpc # "idle" /\ result.status = "pending"

\* C13: the request's temporary directory is deleted only after
\* run_xhs_note_flow has returned, never while the flow is executing, and on
\* every path that passed input validation the cleanup has been invoked
\* exactly once when generate_xhs_note_report returns.
C13_CleanupAfterFlow ==
    /\ FlowExecuting => cleanups = 0 /\ dir_state = "present"
    /\ cleanups <= 1
    /\ (spc = "returned" /\ files \in 1..MaxImages) =>
          /\ cleanups = 1
          /\ dir_state # "present"
    /\ (spc = "returned" /\ fpc # "idle") => svc_result = result

\* the flow failed in a phase, and the directory was removed afterwards
C13_Witness ==
    /\ spc = "returned"
    /\ fpc = "error"
    /\ cleanups = 1
    /\ dir_state = "deleted"
    /\ svc_result.report = None

----------------------------------------------------------------------------
(* Further claims about run_xhs_note_flow, checked under Spec.             *)

VisualRoles == {"xhs_visual_analyst"}

EditRoles == {"xhs_image_editor"}

ContentRoles == {"xhs_growth_strategist", "xhs_content_writer", "xhs_seo_expert"}

\* the batch awaited by a phase of these roles ran into the phase timeout
TimedOut(roles) ==
    \E i \in DOMAIN error_counter :
        error_counter[i][1] \in roles /\ error_counter[i][2] = "TimeoutError"

\* C14: a phase whose awaited batch does not complete within the timeout
\* fails as a whole: nothing of that batch is harvested or used, no later
\* phase runs, and the flow returns (None, error naming TimeoutError).
C14_PhaseTimeout ==
    /\ TimedOut(VisualRoles \cup EditRoles \cup ContentRoles) =>
          /\ fpc = "error"
          /\ result = Returned(None, FlowErrorMsg("TimeoutError"))
          /\ "assemble" \notin Range(phases)
    /\ TimedOut(VisualRoles) =>
          /\ visual_by_id = EmptyMap
          /\ phases = <<"visual">>
          /\ executor_calls = <<"visual">>
    /\ TimedOut(EditRoles) =>
          /\ edit_by_id = EmptyMap
          /\ images_visual = <<>> /\ images_edit_plan = <<>>
          /\ phases = <<"visual", "edit">>
          /\ executor_calls = <<"visual", "edit">>
    /\ TimedOut(ContentRoles) =>
          /\ seo_note = None
          /\ phases[Len(phases)] = "content"

\* the edit batch timed out after a visual phase that harvested something
C14_Witness ==
    /\ TimedOut(EditRoles)
    /\ visual_by_id # EmptyMap
    /\ result.status = "returned"

\* C15: for an invocation with a non-empty image list the flow-duration
\* histogram is observed exactly once before the function returns, on the
\* success path and on every failure path; on the failure path the error
\* string carries the exception's type name followed by its message.
C15_DurationObservedOnce ==
    images # <<>> =>
      /\ duration_obs = IF result.status = "returned" THEN 1 ELSE 0
      /\ fpc = "error" =>
            /\ \E t \in ExcTypes \cup {"AttributeError"} :
                  result = Returned(None, FlowErrorMsg(t))
            /\ error_counter # <<>> =>
                  result.error = FlowErrorMsg(error_counter[Len(error_counter)][2])

\* the content phase failed with RuntimeError and the duration was observed
C15_Witness ==
    /\ fpc = "error"
    /\ phases = <<"visual", "edit", "content">>
    /\ result.error = FlowErrorMsg("RuntimeError")
    /\ duration_obs = 1

----------------------------------------------------------------------------
(* AliyunLLM.call with responses of several tool calls, against an         *)
(* endpoint that always answers: SpecTools.                                *)

\* a response carries 1..MaxBatch tool calls
MaxBatch == 2

ToolCallBatches == UNION {[1..n -> ToolCallKinds] : n \in 1..MaxBatch}

AnswerToolBatch == AnswerToolCallsFrom(ToolCallBatches)

NextTools ==
    \/ LLMCall
    \/ AnswerToolBatch
    \/ AnswerText

SpecTools == InitLLM /\ [][NextTools]_vars

\* the tool message an inline resolution of a tool call of this kind leaves
InlineContent(kind) ==
    CASE kind = "unknown_fn" -> "unavailable"
      [] kind = "fn_raises" -> "function_error"
      [] OTHER -> "function_result"

\* msgs ends with the assistant entry of tcs followed by the tool messages
\* of its first k tool calls, in order
RoundResolved(msgs, tcs, k) ==
    /\ Len(msgs) > k
    /\ msgs[Len(msgs) - k] = AssistantToolCalls(tcs)
    /\ \A i \in 1..k :
          msgs[Len(msgs) - k + i] = ToolMessage(i, InlineContent(tcs[i]))

----------------------------------------------------------------------------
(* Concurrent invocations of run_xhs_note_flow: the objects they use.      *)

\* number of invocations running concurrently
MaxFlows == 2

Invocations == 1..MaxFlows

\* an agent bound to a module-level name of agents.py, as flows.py and
\* tasks.py import it: one object for the process
ModuleAgent(role) == [kind |-> "agent", name |-> role, owner |-> 0]

\* a Task bound to a module-level name of tasks.py: one object for the
\* process
ModuleTask(name) == [kind |-> "task", name |-> name, owner |-> 0]

\* a Task constructed by a build_* function called by invocation i
BuiltTask(name, i) == [kind |-> "task", name |-> name, owner |-> i]

\* the crew of a phase is handed these objects by invocation i
Use(i, objs) == used' = [used EXCEPT ![i] = @ \cup objs]

\* _run_visual_analysis_phase: per-image tasks and the summary task are
\* built, and Crew(agents=[xhs_visual_analyst], tasks=tasks) runs them
ConcVisual ==
    \E i \in Invocations :
        /\ cpc[i] = "visual"
        /\ Use(i, {ModuleAgent("xhs_visual_analyst"),
                   BuiltTask("task_visual_analysis", i),
                   BuiltTask("task_visual_analysis_summary", i)})
        /\ cpc' = [cpc EXCEPT ![i] = "edit"]
        /\ UNCHANGED <<output_by, observed>>
        /\ UNCHANGED <<flowVars, llmVars, svcVars, fnVars>>

\* _run_image_edit_phase
ConcEdit ==
    \E i \in Invocations :
        /\ cpc[i] = "edit"
        /\ Use(i, {ModuleAgent("xhs_image_editor"),
                   BuiltTask("task_image_edit_plan", i),
                   BuiltTask("task_image_edit_plan_summary", i)})
        /\ cpc' = [cpc EXCEPT ![i] = "strategy"]
        /\ UNCHANGED <<output_by, observed>>
        /\ UNCHANGED <<flowVars, llmVars, svcVars, fnVars>>

\* tasks=[task_content_strategy, task_copywriting, task_seo_optimization]
ContentTasks ==
    {ModuleTask("task_content_strategy"), ModuleTask("task_copywriting"),
     ModuleTask("task_seo_optimization")}

\* _run_content_phase: the crew is built from the three agents and the
\* three content tasks; its first task runs and sets its output
ConcStrategy ==
    \E i \in Invocations :
        /\ cpc[i] = "strategy"
        /\ Use(i, {ModuleAgent("xhs_growth_strategist"),
                   ModuleAgent("xhs_content_writer"),
                   ModuleAgent("xhs_seo_expert")} \cup ContentTasks)
        /\ output_by' = [output_by EXCEPT !["task_content_strategy"] = i]
        /\ cpc' = [cpc EXCEPT ![i] = "copywriting"]
        /\ UNCHANGED observed
        /\ UNCHANGED <<flowVars, llmVars, svcVars, fnVars>>

\* task_copywriting runs: it reads the output of its context
\* [task_content_strategy] and sets its own
ConcCopywriting ==
    \E i \in Invocations :
        /\ cpc[i] = "copywriting"
        /\ observed' = [observed EXCEPT
                          ![i] = @ \cup {output_by["task_content_strategy"]}]
        /\ output_by' = [output_by EXCEPT !["task_copywriting"] = i]
        /\ cpc' = [cpc EXCEPT ![i] = "seo"]
        /\ UNCHANGED used
        /\ UNCHANGED <<flowVars, llmVars, svcVars, fnVars>>

\* task_seo_optimization runs: it reads the outputs of its context
\* [task_content_strategy, task_copywriting] and sets its own
ConcSeo ==
    \E i \in Invocations :
        /\ cpc[i] = "seo"
        /\ observed' = [observed EXCEPT
                          ![i] = @ \cup {output_by["task_content_strategy"],
                                         output_by["task_copywriting"]}]
        /\ output_by' = [output_by EXCEPT !["task_seo_optimization"] = i]
        /\ cpc' = [cpc EXCEPT ![i] = "done"]
        /\ UNCHANGED used
        /\ UNCHANGED <<flowVars, llmVars, svcVars, fnVars>>

\* a phase of invocation i raises: the invocation returns its error
ConcFail ==
    \E i \in Invocations :
        /\ cpc[i] \in {"edit", "strategy", "copywriting", "seo"}
        /\ cpc' = [cpc EXCEPT ![i] = "failed"]
        /\ UNCHANGED <<used, output_by, observed>>
        /\ UNCHANGED <<flowVars, llmVars, svcVars, fnVars>>

InitConc ==
    /\ FlowIdle
    /\ LLMIdle
    /\ SvcIdle
    /\ FnIdle
    /\ cpc = [i \in Invocations |-> "visual"]
    /\ used = [i \in Invocations |-> {}]
    /\ output_by = [t \in ModuleTaskNames |-> 0]
    /\ observed = [i \in Invocations |-> {}]

NextConc ==
    \/ ConcVisual
    \/ ConcEdit
    \/ ConcStrategy
    \/ ConcCopywriting
    \/ ConcSeo
    \/ ConcFail

SpecConc == InitConc /\ [][NextConc]_vars

\* C19: agent and task objects are scoped to one flow invocation: no agent
\* or task object is used by two concurrently running invocations, and an
\* invocation never observes a task output set by another one.
C19_InvocationScoped ==
    /\ \A i, j \in Invocations : i # j => used[i] \cap used[j] = {}
    /\ \A i \in Invocations : observed[i] \subseteq {i}

----------------------------------------------------------------------------
(* The task builders, checked under Spec.                                  *)

\* C20: building a task whose template is missing from the template
\* configuration returns a task with an empty description rather than
\* raising: a flow run with the per-image templates missing still builds
\* one task per image and the summary task.
C20_MissingTemplateEmpty ==
    (~cfg_ok /\ images # <<>> /\ fpc # "start") =>
      /\ Len(tasks_built) >= Len(images) + 1
      /\ \A i \in DOMAIN images : <<"visual", images[i]>> \in Range(tasks_built)

----------------------------------------------------------------------------
(* Further claims about AliyunLLM.call, checked under SpecLLM.             *)

\* C21: a successful response without choices, or whose message has neither
\* content nor tool calls, makes the call fail at once with a hard error:
\* the request is re-issued neither by the retry loop nor by the
\* empty-content retry.
C21_MalformedResponseHardError ==
    /\ last = "no_choices" => lpc = "raised" /\ outcome = NoChoicesError
    /\ last = "no_content" => lpc = "raised" /\ outcome = NoContentError
    /\ seen \in {{"no_choices"}, {"no_content"}} =>
          Len(sent) = 1 /\ completions = 1 /\ attempt = 0

\* retries were available, and the response without choices ended the call
\* after one request
C21_Witness ==
    /\ retry_count = 1
    /\ seen = {"no_choices"}
    /\ Len(sent) = 1
    /\ outcome = NoChoicesError

-----------------------------------------------------------------------------
(* The edit phase without work, checked under Spec.                        *)

\* the edit phase was entered and no image of the request has an entry in
\* the visual map
EditWithoutWork ==
    /\ "edit" \in Range(phases)
    /\ \A i \in DOMAIN images : ~HasVisual(visual_by_id, images[i])

\* C22: if no image of the request has an entry in the visual map, the edit
\* phase builds zero tasks and returns empty results (an empty map and an
\* empty summary) without handing anything to the executor and without
\* touching any error counter.
C22_EditShortCircuit ==
    EditWithoutWork =>
        /\ \A k \in DOMAIN tasks_built :
              tasks_built[k][1] \notin {"edit", "edit_summary"}
        /\ "edit" \notin Range(executor_calls)
        /\ edit_by_id = EmptyMap
        /\ edit_summary = ""
        /\ \A k \in DOMAIN error_counter : error_counter[k][1] \notin EditRoles
        /\ fpc \notin {"edit_wait"}

\* a request with images whose visual outputs all failed to parse went
\* through the edit phase and on to the content phase
C22_Witness ==
    /\ EditWithoutWork
    /\ images # <<>>
    /\ "content" \in Range(phases)
    /\ edit_summary = ""
-----------------------------------------------------------------------------
(* Input validation of generate_xhs_note_report, checked under SpecService. *)

\* run_xhs_note_flow has been invoked by the service
FlowInvoked == fpc # "idle"

\* C23: generate_xhs_note_report invokes the flow only when the number of
\* files is between 1 and xhs_max_images; with zero or too many files it
\* returns (None, validation error) without saving a file, without creating
\* the temporary directory and without invoking the flow.
C23_ValidationBeforeWork ==
    /\ FlowInvoked => files >= 1 /\ files <= MaxImages
    /\ dir_state # "absent" => files >= 1 /\ files <= MaxImages
    /\ (spc = "returned" /\ (files = 0 \/ files > MaxImages)) =>
          /\ svc_result = Returned(None, IF files = 0 THEN TooFewMsg ELSE TooManyMsg)
          /\ dir_state = "absent"
          /\ cleanups = 0
          /\ ~FlowInvoked
          /\ images = <<>>

\* a request with one file more than the limit has been turned away
C23_Witness ==
    /\ spc = "returned"
    /\ files = MaxImages + 1
    /\ svc_result = Returned(None, TooManyMsg)
    /\ ~FlowInvoked
-----------------------------------------------------------------------------
(* verify_api_key, checked under SpecAuth.                                 *)

\* the longest list of comma-separated entries of settings.api_keys
MaxKeys == 2

\* the entries of settings.api_keys between the commas
KeyEntries == {"", " ", "key1", " key1 ", "key2"}

\* str.strip()
Strip(k) ==
    IF k = " " THEN ""
    ELSE IF k = " key1 " THEN "key1"
    ELSE k

\* the values of the X-API-Key header
Headers == {NoHeader, "", "key1", " key1 ", "key2", "wrong-key"}

Envs == {"development", "staging", "production"}

\* Settings.get_valid_api_keys
GetValidApiKeys(keys) ==
    IF Len(keys) = 1 /\ Strip(keys[1]) = ""
    THEN {}
    ELSE {Strip(keys[i]) : i \in {j \in DOMAIN keys : Strip(keys[j]) # ""}}

\* Settings.is_production
IsProduction(e) == e = "production"

HttpException(code) == [status |-> "raised", code |-> code]

Accepted(value) == [status |-> "returned", value |-> value]

\* (mutant) verify_api_key without the production check
VerifyNoProductionCheck(keys, e, header) ==
    LET valid_keys == GetValidApiKeys(keys) IN
    IF valid_keys = {}
    THEN Accepted(IF header \in {NoHeader, ""} THEN "dev-no-key" ELSE header)
    ELSE IF header \in {NoHeader, ""} \/ header \notin valid_keys
         THEN HttpException(401)
         ELSE Accepted(header)

\* verify_api_key
Verify(keys, e, header) ==
    LET valid_keys == GetValidApiKeys(keys) IN
    IF valid_keys = {}
    THEN IF IsProduction(e)
         THEN HttpException(500)
         ELSE Accepted(IF header \in {NoHeader, ""} THEN "dev-no-key" ELSE header)
    ELSE IF header \in {NoHeader, ""} \/ header \notin valid_keys
         THEN HttpException(401)
         ELSE Accepted(header)

VerifyApiKey ==
    /\ qpc = "verify"
    /\ auth' = Verify(api_keys, env, x_api_key)
    /\ qpc' = "verified"
    /\ UNCHANGED <<api_keys, env, x_api_key>>
    /\ UNCHANGED <<harvestVars, contentVars, buildVars, reportVars, acallVars,
                   moreVars>>
    /\ UNCHANGED <<flowVars, llmVars, svcVars, concVars>>

InitAuth ==
    /\ FlowIdle
    /\ LLMIdle
    /\ SvcIdle
    /\ ConcIdle
    /\ qpc = "verify"
    /\ api_keys \in UNION {[1..n -> KeyEntries] : n \in 1..MaxKeys}
    /\ env \in Envs
    /\ x_api_key \in Headers
    /\ auth = NotVerified
    /\ HarvestIdle
    /\ ContentIdle
    /\ BuildIdle
    /\ ReportIdle
    /\ AcallIdle
    /\ MoreIdle

NextAuth == VerifyApiKey

SpecAuth == InitAuth /\ [][NextAuth]_vars

\* some entry of settings.api_keys is a key
KeysConfigured == \E i \in DOMAIN api_keys : api_keys[i] \notin {"", " "}

\* the header carries one of the configured keys
HeaderIsConfiguredKey ==
    \E i \in DOMAIN api_keys :
        api_keys[i] \notin {"", " "} /\ x_api_key = Strip(api_keys[i])

\* C24: verify_api_key accepts a request exactly when keys are configured
\* and the X-API-Key header equals one of them, or no keys are configured and
\* the environment is not production; with keys configured a missing or
\* unknown key is answered 401, and no keys in production is answered 500.
C24_ApiKeyDecision ==
    qpc = "verified" =>
        /\ auth.status = "returned" <=>
              \/ KeysConfigured /\ HeaderIsConfiguredKey
              \/ ~KeysConfigured /\ env # "production"
        /\ (KeysConfigured /\ ~HeaderIsConfiguredKey) => auth = HttpException(401)
        /\ (~KeysConfigured /\ env = "production") => auth = HttpException(500)

\* no keys are configured, the environment is production and the request
\* carries a key: answered 500
C24_Witness ==
    /\ qpc = "verified"
    /\ ~KeysConfigured
    /\ env = "production"
    /\ x_api_key = "key1"
    /\ auth = HttpException(500)
-----------------------------------------------------------------------------
(* The harvest of a completed batch, checked under SpecHarvest.            *)

\* a task output: its pydantic (Unparsed, or the image_id it reports) and
\* its raw
OutputsWith(raws) == [pydantic : {Unparsed} \cup ImageIds, raw : raws]

\* result.tasks_output: per-image outputs and the output of the task that
\* was placed last
Batches ==
    {<<>>} \cup UNION {
        {pre \o <<l>> : pre \in [1..n -> OutputsWith({"text"})],
                          l \in OutputsWith(SummaryRaws)} : n \in 0..MaxImages}

Pydantics(outs) == [i \in DOMAIN outs |-> outs[i].pydantic]

\* (mutant) the loop runs over all of tasks_output
HarvestBatchWithSummary(outs) == Harvest(Pydantics(outs))

\* for task_output in tasks_output[:-1] if len(tasks_output) > 1
\*                    else tasks_output: ...
HarvestBatch(outs) ==
    IF Len(outs) > 1
    THEN Harvest(Pydantics(SubSeq(outs, 1, Len(outs) - 1)))
    ELSE Harvest(Pydantics(outs))

\* summary = ""; if tasks_output: summary = tasks_output[-1].raw or "" ...
PhaseSummary(outs) ==
    IF outs = <<>> THEN "" ELSE SummaryOf(outs[Len(outs)].raw)

HarvestResults ==
    /\ qpc = "harvest"
    /\ harvested' = HarvestBatch(tasks_output)
    /\ summary' = PhaseSummary(tasks_output)
    /\ qpc' = "harvested"
    /\ UNCHANGED tasks_output
    /\ UNCHANGED <<authVars, contentVars, buildVars, reportVars, acallVars,
                   moreVars>>
    /\ UNCHANGED <<flowVars, llmVars, svcVars, concVars>>

InitHarvest ==
    /\ FlowIdle
    /\ LLMIdle
    /\ SvcIdle
    /\ ConcIdle
    /\ qpc = "harvest"
    /\ AuthIdle
    /\ ContentIdle
    /\ BuildIdle
    /\ ReportIdle
    /\ AcallIdle
    /\ MoreIdle
    /\ tasks_output \in Batches
    /\ harvested = EmptyMap
    /\ summary = Unset

NextHarvest == HarvestResults

SpecHarvest == InitHarvest /\ [][NextHarvest]_vars

\* the batch is n >= 1 per-image outputs followed by one summary output
CompleteBatch == Len(tasks_output) >= 2

\* the positions of the per-image outputs that parsed
ParsedPositions ==
    {i \in 1..(Len(tasks_output) - 1) : tasks_output[i].pydantic # Unparsed}

\* the summary's raw text: "" when it is missing, its str() when it is not
\* a string
SummaryText == SummaryOf(tasks_output[Len(tasks_output)].raw)

\* C25 as stated: harvesting a batch of n per-image outputs followed by one
\* summary output yields a map that contains exactly those of the first n
\* outputs that parsed, keyed by image_id; the summary output is not
\* harvested and its raw text becomes the phase summary; an unparsed output
\* is excluded and the harvest does not fail.
C25_HarvestAllParsed ==
    /\ qpc = "harvest" => ENABLED HarvestResults
    /\ (qpc = "harvested" /\ CompleteBatch) =>
          /\ Range(harvested) = {[image_id |-> tasks_output[i].pydantic, task |-> i] :
                                i \in ParsedPositions}
          /\ \A k \in DOMAIN harvested : harvested[k].image_id = k
          /\ summary = SummaryText

\* C25 (amended): the map's keys are the image_ids reported by the parsed
\* outputs among the first n, each bound to the last parsed output that
\* reports it (an earlier parsed output reporting the same image_id is
\* overwritten); the summary output is not harvested and its raw text
\* becomes the phase summary; an unparsed output is excluded and the harvest
\* does not fail.
C25_HarvestLastPerKey ==
    /\ qpc = "harvest" => ENABLED HarvestResults
    /\ (qpc = "harvested" /\ CompleteBatch) =>
          /\ DOMAIN harvested = {tasks_output[i].pydantic : i \in ParsedPositions}
          /\ \A k \in DOMAIN harvested :
                /\ harvested[k].image_id = k
                /\ harvested[k].task \in ParsedPositions
                /\ tasks_output[harvested[k].task].pydantic = k
                /\ \A i \in ParsedPositions :
                      tasks_output[i].pydantic = k => i <= harvested[k].task
          /\ summary = SummaryText

\* two parsed outputs that report the same image_id, followed by a summary
\* output that carries a structured output of its own
C25_Witness ==
    /\ qpc = "harvested"
    /\ Len(tasks_output) = 3
    /\ tasks_output[1].pydantic = 1
    /\ tasks_output[2].pydantic = 1
    /\ tasks_output[3].pydantic # Unparsed
    /\ harvested = (1 :> [image_id |-> 1, task |-> 2])
    /\ summary = "summary text"
-----------------------------------------------------------------------------
(* _run_content_phase, checked under SpecContent.                          *)

\* context=[...] of the module-level content tasks
ContextOf(t) ==
    IF t = "task_copywriting" THEN {"task_content_strategy"}
    ELSE IF t = "task_seo_optimization"
         THEN {"task_content_strategy", "task_copywriting"}
         ELSE {}

\* output_pydantic of the module-level content tasks
SchemaOf(t) ==
    IF t = "task_content_strategy" THEN "XhsContentStrategyBrief"
    ELSE IF t = "task_copywriting" THEN "XhsCopywritingOutput"
    ELSE "XhsSEOOptimizedNote"

\* (mutant) the crew is given the copywriting task first
ContentTaskListSwapped ==
    <<"task_copywriting", "task_content_strategy", "task_seo_optimization">>

\* tasks=[task_content_strategy, task_copywriting, task_seo_optimization]
ContentTaskList ==
    <<"task_content_strategy", "task_copywriting", "task_seo_optimization">>

\* inputs={"idea_text": ..., "visual_report": ..., "edit_report": ...}; the
\* two reports are given by the number of images they aggregate
ContentInputs == [idea_text : IdeaTexts, images : 0..MaxImages]

\* Crew(..., process=Process.sequential) and crew.akickoff(inputs=...)
ContentKickoff ==
    /\ qpc = "content"
    /\ content_tasks' = ContentTaskList
    /\ qpc' = "content_wait"
    /\ UNCHANGED <<content_inputs, started, content_outputs, content_ret>>
    /\ UNCHANGED <<authVars, harvestVars, buildVars, reportVars, acallVars,
                   moreVars>>
    /\ UNCHANGED <<flowVars, llmVars, svcVars, concVars>>

\* the sequential process starts the next task of the list once the task
\* before it has finished (async_execution=False); the task is given the
\* crew's inputs and the outputs of the tasks of its context
ExecutorStartTask ==
    /\ qpc = "content_wait"
    /\ Len(started) = Len(content_outputs)
    /\ Len(started) < Len(content_tasks)
    /\ LET t == content_tasks[Len(started) + 1] IN
          started' = Append(started,
              [task |-> t,
               inputs |-> content_inputs,
               context |-> {content_outputs[i].task :
                              i \in {j \in DOMAIN content_outputs :
                                        content_outputs[j].task \in ContextOf(t)}}])
    /\ UNCHANGED <<qpc, content_tasks, content_inputs, content_outputs, content_ret>>
    /\ UNCHANGED <<authVars, harvestVars, buildVars, reportVars, acallVars,
                   moreVars>>
    /\ UNCHANGED <<flowVars, llmVars, svcVars, concVars>>

\* the running task finishes: its output is appended to tasks_output, with
\* pydantic None when the output did not parse into the task's schema
ExecutorFinishTask ==
    /\ qpc = "content_wait"
    /\ Len(started) = Len(content_outputs) + 1
    /\ \E parsed \in BOOLEAN :
          LET t == started[Len(started)].task IN
          content_outputs' = Append(content_outputs,
              [task |-> t,
               pydantic |-> IF parsed THEN [kind |-> SchemaOf(t)] ELSE None])
    /\ UNCHANGED <<qpc, content_tasks, content_inputs, started, content_ret>>
    /\ UNCHANGED <<authVars, harvestVars, buildVars, reportVars, acallVars,
                   moreVars>>
    /\ UNCHANGED <<flowVars, llmVars, svcVars, concVars>>

\* the awaited kickoff returns: tasks_output[0], [1], [2] are returned as
\* (strategy_brief, copywriting, seo_note)
ContentReturn ==
    /\ qpc = "content_wait"
    /\ Len(content_outputs) = Len(content_tasks)
    /\ content_ret' = [status |-> "returned",
                       value |-> <<content_outputs[1].pydantic,
                                   content_outputs[2].pydantic,
                                   content_outputs[3].pydantic>>]
    /\ qpc' = "content_done"
    /\ UNCHANGED <<content_tasks, content_inputs, started, content_outputs>>
    /\ UNCHANGED <<authVars, harvestVars, buildVars, reportVars, acallVars,
                   moreVars>>
    /\ UNCHANGED <<flowVars, llmVars, svcVars, concVars>>

\* the awaited kickoff raises or times out: except Exception counts the
\* failure for the three roles and re-raises
ContentPhaseRaise ==
    /\ qpc = "content_wait"
    /\ \E t \in ExcTypes :
          /\ HandleCrewError(t, <<"xhs_growth_strategist",
                                  "xhs_content_writer", "xhs_seo_expert">>)
          /\ content_ret' = [status |-> "raised", type |-> t]
    /\ qpc' = "content_raised"
    /\ UNCHANGED <<content_tasks, content_inputs, started, content_outputs>>
    /\ UNCHANGED <<authVars, harvestVars, buildVars, reportVars, acallVars,
                   moreVars>>
    /\ UNCHANGED <<idea_text, images, cfg_ok, fpc, phases, executor_calls,
                   tasks_built, visual_by_id, edit_by_id, images_visual,
                   images_edit_plan, seo_note, visual_summary, edit_summary,
                   result, duration_obs>>
    /\ UNCHANGED <<llmVars, svcVars, concVars>>

InitContent ==
    /\ FlowIdle
    /\ LLMIdle
    /\ SvcIdle
    /\ ConcIdle
    /\ AuthIdle
    /\ HarvestIdle
    /\ BuildIdle
    /\ ReportIdle
    /\ AcallIdle
    /\ MoreIdle
    /\ qpc = "content"
    /\ content_tasks = <<>>
    /\ content_inputs \in ContentInputs
    /\ started = <<>>
    /\ content_outputs = <<>>
    /\ content_ret = NotReturned

NextContent ==
    \/ ContentKickoff
    \/ ExecutorStartTask
    \/ ExecutorFinishTask
    \/ ContentReturn
    \/ ContentPhaseRaise

SpecContent == InitContent /\ [][NextContent]_vars

\* the pydantic of the finished output of task t
OutputOf(t) ==
    (CHOOSE o \in Range(content_outputs) : o.task = t).pydantic

\* the tasks whose output is finished
Finished == {content_outputs[i].task : i \in DOMAIN content_outputs}

\* C26: the content phase submits exactly three tasks as one ordered
\* sequential batch (content strategy, copywriting, SEO optimization);
\* copywriting depends on strategy and SEO on strategy and copywriting, so
\* each stage starts only after the prior stage's output is finished; the
\* three structured outputs are read by position and returned as (strategy,
\* copywriting, SEO).
C26_ContentChain ==
    /\ qpc # "content" =>
          content_tasks = <<"task_content_strategy", "task_copywriting",
                            "task_seo_optimization">>
    /\ Len(started) <= 3
    /\ \A i \in DOMAIN started :
          /\ started[i].task = <<"task_content_strategy", "task_copywriting",
                                  "task_seo_optimization">>[i]
          /\ \A j \in 1..(i - 1) : started[j].task \in started[i].context
          /\ started[i].context = {started[j].task : j \in 1..(i - 1)}
          /\ Len(content_outputs) >= i - 1
    /\ \A i \in DOMAIN content_outputs : content_outputs[i].task = started[i].task
    /\ qpc = "content_done" =>
          /\ Finished = {"task_content_strategy", "task_copywriting",
                          "task_seo_optimization"}
          /\ content_ret = [status |-> "returned",
                            value |-> <<OutputOf("task_content_strategy"),
                                        OutputOf("task_copywriting"),
                                        OutputOf("task_seo_optimization")>>]

\* the phase returned a strategy brief, no copywriting output and an SEO note
C26_Witness ==
    /\ qpc = "content_done"
    /\ content_ret.value = <<[kind |-> "XhsContentStrategyBrief"], None,
                             [kind |-> "XhsSEOOptimizedNote"]>>
    /\ started[3].context = {"task_content_strategy", "task_copywriting"}
-----------------------------------------------------------------------------
(* The per-role failure counter, checked under Spec.                       *)

\* the number of increments of the counter labelled (role, type)
Increments(role, type) ==
    Cardinality({i \in DOMAIN error_counter : error_counter[i] = <<role, type>>})

\* the roles of the phase that was entered last
RolesOfLastPhase ==
    IF phases = <<>> THEN {}
    ELSE IF phases[Len(phases)] = "visual" THEN VisualRoles
    ELSE IF phases[Len(phases)] = "edit" THEN EditRoles
    ELSE IF phases[Len(phases)] = "content" THEN ContentRoles
    ELSE {}

\* C27: when a phase's executor call raises or times out, the failure
\* counter is incremented exactly once for each role of that phase, labelled
\* with the exception's type name; the counters of the roles of other phases
\* are unchanged, no counter is incremented when the phase succeeds, and the
\* same exception reaches the flow.
C27_FailureCounters ==
    /\ fpc # "error" => error_counter = <<>>
    /\ error_counter # <<>> =>
          \E t \in ExcTypes :
              /\ \A role \in RolesOfLastPhase : Increments(role, t) = 1
              /\ Len(error_counter) = Cardinality(RolesOfLastPhase)
              /\ RolesOfLastPhase # {}
              /\ executor_calls[Len(executor_calls)] = phases[Len(phases)]
              /\ result = Returned(None, FlowErrorMsg(t))

\* the content batch ran into a RuntimeError after both image phases
\* succeeded
C27_Witness ==
    /\ phases = <<"visual", "edit", "content">>
    /\ fpc = "error"
    /\ Increments("xhs_seo_expert", "RuntimeError") = 1
    /\ Increments("xhs_visual_analyst", "RuntimeError") = 0
    /\ Len(error_counter) = 3
-----------------------------------------------------------------------------
(* The task lists of the visual and edit phases, checked under SpecBuild.  *)

FileNames == {"a.jpg", "b.jpg"}

LocalPaths == {"/out/xhs_note/run/0.jpg", "/out/xhs_note/run/1.jpg"}

\* XhsImageInput
ImageInputs == [image_id : ImageIds, file_name : FileNames, local_path : LocalPaths]

\* the visual maps a visual phase can return: image_id -> analysis
VisualMaps ==
    {[k \in K |-> [image_id |-> k, task |-> 1]] : K \in SUBSET ImageIds}

\* images_json = json.dumps([{"image_id": ..., "file_name": ...,
\* "local_path": ...}]): a list with the one image passed in
ImagesInfo(image) ==
    <<[image_id |-> image.image_id, file_name |-> image.file_name,
       local_path |-> image.local_path]>>

\* (mutant) the description lists every image of the request
BuildVisualAnalysisTaskWholeBatch(image, idea) ==
    [kind |-> "visual", idea_text |-> idea, images_info |-> req_images,
     visual_analysis |-> None, context |-> <<>>]

\* build_visual_analysis_task(image, idea_text), templates present
BuildVisualAnalysisTask(image, idea) ==
    [kind |-> "visual", idea_text |-> idea, images_info |-> ImagesInfo(image),
     visual_analysis |-> None, context |-> <<>>]

\* build_image_edit_task(idea_text, image, visual), templates present
BuildImageEditTask(idea, image, visual) ==
    [kind |-> "edit", idea_text |-> idea, images_info |-> ImagesInfo(image),
     visual_analysis |-> visual, context |-> <<>>]

\* build_visual_analysis_summary_task(context) and
\* build_image_edit_plan_summary_task(context): Task(context=context) holds
\* the tasks the list has when the summary task is constructed
BuildSummaryTask(kind, context) ==
    [kind |-> kind, idea_text |-> "", images_info |-> <<>>,
     visual_analysis |-> None, context |-> context]

\* tasks.append(summary_task) after the per-image tasks; no task at all
\* when there is no per-image task
WithSummary(kind, tasks) ==
    IF tasks = <<>> THEN <<>> ELSE Append(tasks, BuildSummaryTask(kind, tasks))

\* the images for which the edit phase builds a task, in request order
ImagesWithVisual(imgs, vis) ==
    SelectSeq(imgs, LAMBDA img : HasVisual(vis, img.image_id))

\* _run_visual_analysis_phase up to the construction of the crew
BuildVisualTasks ==
    /\ qpc = "build_visual"
    /\ visual_tasks' = WithSummary("visual_summary",
            [i \in DOMAIN req_images |->
                BuildVisualAnalysisTask(req_images[i], req_idea)])
    /\ qpc' = "build_edit"
    /\ UNCHANGED <<req_idea, req_images, req_visual, edit_tasks>>
    /\ UNCHANGED <<authVars, harvestVars, contentVars, reportVars, acallVars,
                   moreVars>>
    /\ UNCHANGED <<flowVars, llmVars, svcVars, concVars>>

\* _run_image_edit_phase up to the construction of the crew
BuildEditTasks ==
    /\ qpc = "build_edit"
    /\ LET todo == ImagesWithVisual(req_images, req_visual) IN
          edit_tasks' = WithSummary("edit_summary",
              [i \in DOMAIN todo |->
                  BuildImageEditTask(req_idea, todo[i],
                                     req_visual[todo[i].image_id])])
    /\ qpc' = "built"
    /\ UNCHANGED <<req_idea, req_images, req_visual, visual_tasks>>
    /\ UNCHANGED <<authVars, harvestVars, contentVars, reportVars, acallVars,
                   moreVars>>
    /\ UNCHANGED <<flowVars, llmVars, svcVars, concVars>>

InitBuild ==
    /\ FlowIdle
    /\ LLMIdle
    /\ SvcIdle
    /\ ConcIdle
    /\ AuthIdle
    /\ HarvestIdle
    /\ ContentIdle
    /\ ReportIdle
    /\ AcallIdle
    /\ MoreIdle
    /\ qpc = "build_visual"
    /\ req_idea \in IdeaTexts
    /\ req_images \in UNION {[1..n -> ImageInputs] : n \in 0..MaxImages}
    /\ req_visual \in VisualMaps
    /\ visual_tasks = <<>>
    /\ edit_tasks = <<>>

NextBuild ==
    \/ BuildVisualTasks
    \/ BuildEditTasks

SpecBuild == InitBuild /\ [][NextBuild]_vars

\* tasks is n per-image tasks of the given kind, one per image of imgs and
\* in their order, each carrying its own image's metadata and nothing of
\* another image, followed by one summary task whose context is exactly
\* those n tasks
ScopedBatch(tasks, imgs, kind, summary_kind) ==
    LET n == Len(imgs) IN
    /\ Len(tasks) = n + 1
    /\ \A i \in 1..n :
          /\ tasks[i].kind = kind
          /\ Len(tasks[i].images_info) = 1
          /\ tasks[i].images_info[1] = imgs[i]
          /\ tasks[i].context = <<>>
    /\ tasks[n + 1].kind = summary_kind
    /\ tasks[n + 1].images_info = <<>>
    /\ tasks[n + 1].context = SubSeq(tasks, 1, n)

\* the positions of the images of the request that have a visual analysis
PositionsWithVisual ==
    {i \in DOMAIN req_images : req_images[i].image_id \in DOMAIN req_visual}

\* C28: for a request with n images the visual phase submits exactly n
\* per-image tasks followed by one summary task placed last; the task built
\* for image i carries the metadata of image i only, and the summary task's
\* context is exactly the n per-image tasks. The edit phase does the same
\* over the images that have a visual analysis.
C28_ScopedTasks ==
    /\ (qpc \in {"build_edit", "built"} /\ req_images # <<>>) =>
          ScopedBatch(visual_tasks, req_images, "visual", "visual_summary")
    /\ (qpc = "built" /\ PositionsWithVisual # {}) =>
          /\ ScopedBatch(edit_tasks, ImagesWithVisual(req_images, req_visual),
                         "edit", "edit_summary")
          /\ Len(edit_tasks) = Cardinality(PositionsWithVisual) + 1
          /\ \A k \in 1..(Len(edit_tasks) - 1) :
                /\ \E i \in PositionsWithVisual :
                      edit_tasks[k].images_info[1] = req_images[i]
                /\ edit_tasks[k].visual_analysis.image_id =
                      edit_tasks[k].images_info[1].image_id

\* two images with different ids, names and paths, of which only the second
\* has a visual analysis
C28_Witness ==
    /\ qpc = "built"
    /\ Len(req_images) = 2
    /\ req_images[1].image_id # req_images[2].image_id
    /\ req_images[1].file_name # req_images[2].file_name
    /\ req_images[1].local_path # req_images[2].local_path
    /\ DOMAIN req_visual = {req_images[2].image_id}
    /\ Len(visual_tasks) = 3
    /\ Len(edit_tasks) = 2
    /\ edit_tasks[1].images_info = <<req_images[2]>>
-----------------------------------------------------------------------------
(* _generate_final_report, checked under SpecReport.                       *)

\* tags of an SEO note: a plain tag and a tag that holds a backslash
TagTexts == {"#diet", "a\\b"}

\* XhsSEOOptimizedNote: title, content, picture order and tags
SeoNotes ==
    [optimized_title : {"title"},
     optimized_content : {"content"},
     optimized_picture_order : {<<>>, <<"img_0">>, <<"img_1", "img_0">>},
     tags : UNION {[1..n -> TagTexts] : n \in 0..2}]

\* XhsImageEditPlan
EditPlans ==
    [image_id : ImageIds,
     overall_edit_strategy : {"strategy"},
     crop_suggestion : {"crop"},
     light_color_adjustment : {"light"},
     filter_suggestion : {"filter"},
     text_overlay_suggestion : {"text"},
     beauty_adjustment_suggestion : {"beauty"},
     is_recommended_as_cover : BOOLEAN,
     risk_and_pitfall_notes : {"risk"}]

\* edit_batch.images_edit_plan: the aggregated plans
PlanLists == UNION {[1..n -> EditPlans] : n \in 0..MaxImages}

\* f"{value}" of a bool
FormatBool(b) == IF b THEN "True" ELSE "False"

\* f"{value}" of a str: the string itself
FormatStr(x) == x

\* repr() of a str, inside the quotes: a backslash is doubled
ReprBody(x) == IF x = "a\\b" THEN "a\\\\b" ELSE x

\* f"{value}" of a list of str: the repr of each item, quoted, in order
FormatList(xs) == [i \in DOMAIN xs |-> [quote |-> "'", body |-> ReprBody(xs[i])]]

Line(label, text) == [label |-> label, text |-> text]

\* the nine lines appended for one edit plan
PlanBlock(plan) ==
    << Line("image_id", FormatStr(plan.image_id)),
       Line("overall_edit_strategy", FormatStr(plan.overall_edit_strategy)),
       Line("crop_suggestion", FormatStr(plan.crop_suggestion)),
       Line("light_color_adjustment", FormatStr(plan.light_color_adjustment)),
       Line("filter_suggestion", FormatStr(plan.filter_suggestion)),
       Line("text_overlay_suggestion", FormatStr(plan.text_overlay_suggestion)),
       Line("beauty_adjustment_suggestion",
            FormatStr(plan.beauty_adjustment_suggestion)),
       Line("is_recommended_as_cover", FormatBool(plan.is_recommended_as_cover)),
       Line("risk_and_pitfall_notes", FormatStr(plan.risk_and_pitfall_notes)) >>

RECURSIVE PlanBlocks(_)
PlanBlocks(plans) ==
    IF plans = <<>> THEN <<>>
    ELSE PlanBlock(Head(plans)) \o PlanBlocks(Tail(plans))

\* _generate_final_report(idea_request, edit_batch, xhsSEOOptimizedNote)
GenerateFinalReport(idea, plans, seo) ==
    << Line("idea_text", FormatStr(idea)),
       Line("optimized_title", FormatStr(seo.optimized_title)),
       Line("optimized_content", FormatStr(seo.optimized_content)),
       Line("optimized_picture_order", FormatList(seo.optimized_picture_order)),
       Line("tags", FormatList(seo.tags)),
       Line("edit_plans", "") >>
    \o PlanBlocks(plans)

GenerateReport ==
    /\ qpc = "report"
    /\ final_report' = GenerateFinalReport(rep_idea, rep_plans, rep_seo)
    /\ qpc' = "reported"
    /\ UNCHANGED <<rep_idea, rep_plans, rep_seo>>
    /\ UNCHANGED <<authVars, harvestVars, contentVars, buildVars, acallVars,
                   moreVars>>
    /\ UNCHANGED <<flowVars, llmVars, svcVars, concVars>>

InitReport ==
    /\ FlowIdle
    /\ LLMIdle
    /\ SvcIdle
    /\ ConcIdle
    /\ AuthIdle
    /\ HarvestIdle
    /\ ContentIdle
    /\ BuildIdle
    /\ AcallIdle
    /\ MoreIdle
    /\ qpc = "report"
    /\ rep_idea \in IdeaTexts
    /\ rep_plans \in PlanLists
    /\ rep_seo \in SeoNotes
    /\ final_report = <<>>

NextReport == GenerateReport

SpecReport == InitReport /\ [][NextReport]_vars

\* the text of the report's line with this label
LineText(label) ==
    final_report[CHOOSE i \in DOMAIN final_report :
                    final_report[i].label = label].text

\* the report renders each item of the list with the item's own text
ItemsVerbatim(label, xs) ==
    /\ Len(LineText(label)) = Len(xs)
    /\ \A i \in DOMAIN xs : LineText(label)[i].body = xs[i]

\* C29: the final report contains the idea text and the SEO title, content,
\* picture order and tags verbatim, followed by exactly one per-image block
\* for each aggregated edit plan, in aggregated order.
C29_ReportVerbatim ==
    qpc = "reported" =>
        /\ LineText("idea_text") = rep_idea
        /\ LineText("optimized_title") = rep_seo.optimized_title
        /\ LineText("optimized_content") = rep_seo.optimized_content
        /\ ItemsVerbatim("optimized_picture_order", rep_seo.optimized_picture_order)
        /\ ItemsVerbatim("tags", rep_seo.tags)
        /\ Len(final_report) = 6 + 9 * Len(rep_plans)
        /\ \A i \in DOMAIN rep_plans :
              final_report[6 + 9 * (i - 1) + 1] =
                  Line("image_id", rep_plans[i].image_id)
        /\ Cardinality({k \in DOMAIN final_report :
                           final_report[k].label = "image_id"}) = Len(rep_plans)
-----------------------------------------------------------------------------
(* AliyunLLM.acall, checked under SpecAcall.                               *)

\* the steps another coroutine of the same event loop is followed for
MaxTicks == 2

\* (mutant) acall runs self.call in the coroutine itself
CallThreadLoop == "loop"

\* asyncio.to_thread(self.call, ...): call runs in a worker thread
CallThread == "worker"

\* the event loop's thread is inside self.call
LoopBusy == CallThread = "loop" /\ apc = "awaiting"

\* the arguments of acall
AcallArgs ==
    [messages : InitialMessages, max_iterations : 0..MaxIter,
     retry_on_empty : BOOLEAN]

\* the coroutine reaches await asyncio.to_thread(...) and is suspended
AcallSubmit ==
    /\ apc = "start"
    /\ apc' = "awaiting"
    /\ UNCHANGED <<acall_args, acall_ret, ticks>>
    /\ UNCHANGED <<qpc, authVars, harvestVars, contentVars, buildVars, reportVars,
                   moreVars>>
    /\ UNCHANGED <<flowVars, llmVars, svcVars, concVars>>

\* the thread enters self.call(messages, tools=..., max_iterations=...,
\* _retry_on_empty=...) with the arguments of acall
WorkerCall ==
    /\ apc = "awaiting"
    /\ lpc = "idle"
    /\ max_iterations0' = acall_args.max_iterations
    /\ CallEnter(acall_args.max_iterations, acall_args.retry_on_empty, 0,
                 acall_args.messages)
    /\ UNCHANGED <<retry_count, functions, sent, seen, last>>
    /\ UNCHANGED <<flowVars, svcVars, concVars, fnVars>>

\* another coroutine scheduled on the loop takes a step
OtherCoroutineStep ==
    /\ ~LoopBusy
    /\ ticks < MaxTicks
    /\ ticks' = ticks + 1
    /\ UNCHANGED <<apc, acall_args, acall_ret>>
    /\ UNCHANGED <<qpc, authVars, harvestVars, contentVars, buildVars, reportVars,
                   moreVars>>
    /\ UNCHANGED <<flowVars, llmVars, svcVars, concVars>>

\* call has returned or raised in its thread: the awaited future resolves
\* and acall returns the value or raises the exception
AcallResume ==
    /\ apc = "awaiting"
    /\ lpc \in {"returned", "raised"}
    /\ acall_ret' = outcome
    /\ apc' = "done"
    /\ UNCHANGED <<acall_args, ticks>>
    /\ UNCHANGED <<qpc, authVars, harvestVars, contentVars, buildVars, reportVars,
                   moreVars>>
    /\ UNCHANGED <<flowVars, llmVars, svcVars, concVars>>

InitAcall ==
    /\ FlowIdle
    /\ SvcIdle
    /\ ConcIdle
    /\ qpc = "idle"
    /\ AuthIdle
    /\ HarvestIdle
    /\ ContentIdle
    /\ BuildIdle
    /\ ReportIdle
    /\ MoreIdle
    /\ lpc = "idle"
    /\ retry_count \in 0..MaxRetry
    /\ functions = FALSE
    /\ max_iterations0 = 0
    /\ max_iterations = 0
    /\ retry_on_empty = TRUE
    /\ empty_retry_count = 0
    /\ attempt = 0
    /\ messages = <<>>
    /\ payload = None
    /\ sent = <<>>
    /\ seen = {}
    /\ last = "none"
    /\ completions = 0
    /\ outcome = [status |-> "pending"]
    /\ apc = "start"
    /\ acall_args \in AcallArgs
    /\ acall_ret = [status |-> "pending"]
    /\ ticks = 0

NextAcall ==
    \/ AcallSubmit
    \/ WorkerCall
    \/ AnswerServerError
    \/ AnswerTimeout
    \/ AnswerText
    \/ AnswerEmpty
    \/ OtherCoroutineStep
    \/ AcallResume

SpecAcall == InitAcall /\ [][NextAcall]_vars

\* the request of acall, including its retries, is in flight
InFlight == apc = "awaiting" /\ lpc = "request"

\* C30: acall returns the same content, or raises the same error, as call
\* for the same inputs and endpoint behaviour, and it does not block the
\* event loop: while the request (including its retries) is in flight,
\* other coroutines of the same loop can make progress.
C30_AcallOffloaded ==
    /\ lpc # "idle" =>
          /\ max_iterations0 = acall_args.max_iterations
          /\ messages = acall_args.messages
          /\ ~acall_args.retry_on_empty => ~retry_on_empty
          /\ (retry_on_empty \/ empty_retry_count > 0) => acall_args.retry_on_empty
    /\ apc = "done" =>
          /\ lpc \in {"returned", "raised"}
          /\ acall_ret = outcome
    /\ (apc = "awaiting" /\ lpc \in {"returned", "raised"}) => ENABLED AcallResume
    /\ (InFlight /\ ticks < MaxTicks) => ENABLED OtherCoroutineStep

\* another coroutine ran while a retry of the request was in flight, and
\* acall then raised the error call raised
C30_Witness ==
    /\ apc = "done"
    /\ acall_ret.status = "raised"
    /\ acall_ret = outcome
    /\ attempt >= 1
    /\ ticks = MaxTicks
-----------------------------------------------------------------------------
(* _save_uploaded_images, checked under SpecSave.                          *)

\* the most uploads of one request
MaxUploads == 2

\* f"img_{idx}" for idx = 0, 1, ...
ImageIdOf(idx) == <<"img_0", "img_1", "img_2", "img_3">>[idx + 1]

\* a file name as its stem and its suffix
FileName(stem, ext) == [stem |-> stem, ext |-> ext]

\* UploadFile.filename is None or empty
NoFileName == FileName("", "")

\* the file names of uploads: none, equal names, names that differ in the
\* suffix only, and a name that looks like a fallback name
UploadNames ==
    {NoFileName} \cup {FileName(st, ex) : st \in {"a", "img_1"}, ex \in {".jpg", ".png"}}

\* _sanitize_filename(raw_name or "", fallback_name) on names without
\* separators or reserved characters
SanitizeFilename(raw, fallback) == IF raw = NoFileName THEN fallback ELSE raw

\* path.with_suffix(suffix)
WithSuffix(path, ext) == FileName(path.stem, ext)

\* what compress_image_to_standard does with the file: it raises, or it
\* rewrites it as JPEG or as PNG
CompressOutcomes == {"raises", ".jpg", ".png"}

\* target_path.write_bytes(content)
WriteBytes(d, path, idx) ==
    [q \in DOMAIN d \cup {path} |-> IF q = path THEN idx ELSE d[q]]

\* compress_image_to_standard(target_path): the file is replaced by the
\* compressed one, under the suffix of the format written
Compress(d, path, ext) ==
    LET dest == WithSuffix(path, ext) IN
    [q \in (DOMAIN d \ {path}) \cup {dest} |-> IF q = dest THEN d[path] ELSE d[q]]

\* one round of the loop over the uploads
SaveUpload ==
    /\ qpc = "save"
    /\ Len(saved) < Len(uploads)
    /\ LET idx == Len(saved)
           image_id == ImageIdOf(idx)
           safe_name == SanitizeFilename(uploads[idx + 1], FileName(image_id, ".jpg"))
           written == WriteBytes(disk, safe_name, idx)
       IN \E o \in CompressOutcomes :
            LET local_path == IF o = "raises" THEN safe_name
                              ELSE WithSuffix(safe_name, o)
            IN /\ disk' = IF o = "raises" THEN written
                          ELSE Compress(written, safe_name, o)
               /\ saved' = Append(saved, [image_id |-> image_id,
                                          file_name |-> safe_name,
                                          local_path |-> local_path])
    /\ UNCHANGED <<qpc, uploads, toolVars, waitVars>>
    /\ UNCHANGED <<flowVars, llmVars, svcVars, concVars, fnRest>>

\* the loop is over: return images
SaveReturn ==
    /\ qpc = "save"
    /\ Len(saved) = Len(uploads)
    /\ qpc' = "saved"
    /\ UNCHANGED <<uploads, saved, disk, toolVars, waitVars>>
    /\ UNCHANGED <<flowVars, llmVars, svcVars, concVars>>
    /\ UNCHANGED <<authVars, harvestVars, contentVars, buildVars, reportVars,
                   acallVars>>

\* f.read() or write_bytes raises: the exception leaves the function
SaveUploadRaise ==
    /\ qpc = "save"
    /\ Len(saved) < Len(uploads)
    /\ qpc' = "save_raised"
    /\ UNCHANGED <<uploads, saved, disk, toolVars, waitVars>>
    /\ UNCHANGED <<flowVars, llmVars, svcVars, concVars>>
    /\ UNCHANGED <<authVars, harvestVars, contentVars, buildVars, reportVars,
                   acallVars>>

InitSave ==
    /\ FlowIdle
    /\ LLMIdle
    /\ SvcIdle
    /\ ConcIdle
    /\ AuthIdle
    /\ HarvestIdle
    /\ ContentIdle
    /\ BuildIdle
    /\ ReportIdle
    /\ AcallIdle
    /\ qpc = "save"
    /\ uploads \in UNION {[1..n -> UploadNames] : n \in 1..MaxUploads}
    /\ saved = <<>>
    /\ disk = EmptyMap
    /\ ToolsIdle
    /\ WaitIdle

NextSave ==
    \/ SaveUpload
    \/ SaveReturn
    \/ SaveUploadRaise

SpecSave == InitSave /\ [][NextSave]_vars

\* C31: for any list of uploads (including equal or empty file names)
\* _save_uploaded_images returns one image per upload, in upload order, with
\* the pairwise distinct image_ids img_0 .. img_{n-1}, and no two images of
\* the request share a local_path: every image is backed by its own file.
C31_OwnFilePerImage ==
    qpc = "saved" =>
        /\ Len(saved) = Len(uploads)
        /\ \A i \in DOMAIN saved : saved[i].image_id = ImageIdOf(i - 1)
        /\ \A i, j \in DOMAIN saved :
              i # j => /\ saved[i].image_id # saved[j].image_id
                       /\ saved[i].local_path # saved[j].local_path
        /\ \A i \in DOMAIN saved :
              /\ saved[i].local_path \in DOMAIN disk
              /\ disk[saved[i].local_path] = i - 1
-----------------------------------------------------------------------------
(* AliyunLLM.call with a tools argument, checked under SpecPayload.        *)

\* the tools arguments of a caller: none, an empty list, one declaration
ToolsArgs == {None, ToolList(<<>>), ToolList(<<"add_image_to_content_local">>)}

\* llm.call(messages, tools=..., available_functions=..., max_iterations=2)
\* on an adapter with one HTTP retry and a function table
InitPayload ==
    /\ FlowIdle
    /\ SvcIdle
    /\ ConcIdle
    /\ qpc = "idle"
    /\ AuthIdle
    /\ HarvestIdle
    /\ ContentIdle
    /\ BuildIdle
    /\ ReportIdle
    /\ AcallIdle
    /\ SaveIdle
    /\ WaitIdle
    /\ tools \in ToolsArgs
    /\ lpc = "idle"
    /\ retry_count = 1
    /\ functions = TRUE
    /\ max_iterations0 = 0
    /\ max_iterations = 0
    /\ retry_on_empty = TRUE
    /\ empty_retry_count = 0
    /\ attempt = 0
    /\ messages = <<>>
    /\ payload = None
    /\ sent = <<>>
    /\ seen = {}
    /\ last = "none"
    /\ completions = 0
    /\ outcome = [status |-> "pending"]

NextPayload ==
    \/ LLMCall
    \/ AnswerServerError
    \/ AnswerTimeout
    \/ AnswerText
    \/ AnswerEmpty
    \/ AnswerToolCalls

SpecPayload == InitPayload /\ [][NextPayload]_vars

\* C32: no outgoing request payload built by AliyunLLM.call contains tool
\* declarations: whatever tools argument the caller passes, no posted
\* payload has a "tools" field, on the first request, on HTTP retries, on
\* empty-content re-issues and on tool-loop follow-up requests.
C32_NoToolsInPayload ==
    /\ \A i \in DOMAIN sent : "tools" \notin DOMAIN sent[i]
    /\ payload # None => "tools" \notin DOMAIN payload

\* a call with a declared tool posted again after a 5xx, after an empty
\* content and after a resolved tool call
C32_Witness ==
    /\ Truthy(tools)
    /\ {"5xx", "empty", "tool_calls"} \subseteq seen
    /\ Len(sent) >= 4
-----------------------------------------------------------------------------
(* The tool-message protocol, checked under SpecTools.                     *)

\* the step answers a request with tool calls that _handle_function_calls
\* starts to resolve
ToolRound ==
    /\ functions
    /\ lpc = "request"
    /\ Len(sent') = Len(sent) + 1
    /\ Len(messages') > Len(messages)

\* the tool calls of the assistant message the step appended
RoundToolCalls == messages'[Len(messages) + 1].tool_calls

-----------------------------------------------------------------------------
(* The total number of HTTP requests of one call, checked under SpecLLM.   *)

\* no answer so far carried tool calls
NoToolCallsSeen == seen \cap {"tool_calls", "tool_calls_malformed"} = {}

-----------------------------------------------------------------------------
(* A phase timeout while a task of the batch awaits acall: SpecCancel.     *)

\* asyncio.wait_for(crew.akickoff(), timeout) expires: the awaited coroutine
\* is cancelled at its await and wait_for raises TimeoutError. The future of
\* asyncio.to_thread is cancelled with it; a thread that already runs
\* self.call is not interrupted.
WaitForTimeout ==
    /\ wpc = "awaiting"
    /\ apc \in {"start", "awaiting"}
    /\ wpc' = "timed_out"
    /\ apc' = "cancelled"
    /\ UNCHANGED <<acall_args, acall_ret, ticks>>
    /\ UNCHANGED <<qpc, authVars, harvestVars, contentVars, buildVars, reportVars,
                   saveVars, toolVars>>
    /\ UNCHANGED <<flowVars, llmVars, svcVars, concVars>>

\* acall has returned or raised: the batch is over before the timeout and
\* the phase goes on (to its harvest, or to its except clause)
KickoffReturn ==
    /\ wpc = "awaiting"
    /\ apc = "done"
    /\ wpc' = "completed"
    /\ UNCHANGED <<acallVars, saveVars, toolVars>>
    /\ UNCHANGED <<qpc, authVars, harvestVars, contentVars, buildVars, reportVars>>
    /\ UNCHANGED <<flowVars, llmVars, svcVars, concVars>>

\* except Exception in the phase (_handle_crew_error, raise) and in
\* run_xhs_note_flow: the flow returns (None, error)
FlowReturnError ==
    /\ wpc = "timed_out"
    /\ wpc' = "returned"
    /\ UNCHANGED <<acallVars, saveVars, toolVars>>
    /\ UNCHANGED <<qpc, authVars, harvestVars, contentVars, buildVars, reportVars>>
    /\ UNCHANGED <<flowVars, llmVars, svcVars, concVars>>

\* generate_xhs_note_report: _cleanup_temp_directory(base_dir) after the
\* flow has returned
ServiceCleanup ==
    /\ wpc = "returned"
    /\ wpc' = "cleaned"
    /\ UNCHANGED <<acallVars, saveVars, toolVars>>
    /\ UNCHANGED <<qpc, authVars, harvestVars, contentVars, buildVars, reportVars>>
    /\ UNCHANGED <<flowVars, llmVars, svcVars, concVars>>

\* a phase awaits its batch, one task of which is about to await acall
InitCancel ==
    /\ FlowIdle
    /\ SvcIdle
    /\ ConcIdle
    /\ qpc = "idle"
    /\ AuthIdle
    /\ HarvestIdle
    /\ ContentIdle
    /\ BuildIdle
    /\ ReportIdle
    /\ SaveIdle
    /\ ToolsIdle
    /\ wpc = "awaiting"
    /\ lpc = "idle"
    /\ retry_count \in 0..MaxRetry
    /\ functions = FALSE
    /\ max_iterations0 = 0
    /\ max_iterations = 0
    /\ retry_on_empty = TRUE
    /\ empty_retry_count = 0
    /\ attempt = 0
    /\ messages = <<>>
    /\ payload = None
    /\ sent = <<>>
    /\ seen = {}
    /\ last = "none"
    /\ completions = 0
    /\ outcome = [status |-> "pending"]
    /\ apc = "start"
    /\ acall_args \in AcallArgs
    /\ acall_ret = [status |-> "pending"]
    /\ ticks = 0

NextCancel ==
    \/ AcallSubmit
    \/ WorkerCall
    \/ AnswerServerError
    \/ AnswerTimeout
    \/ AnswerText
    \/ AnswerEmpty
    \/ AcallResume
    \/ KickoffReturn
    \/ WaitForTimeout
    \/ FlowReturnError
    \/ ServiceCleanup

SpecCancel == InitCancel /\ [][NextCancel]_vars

\* C35: once a phase timeout has aborted the flow and run_xhs_note_flow has
\* returned its error, no work started for the timed-out batch is still
\* executing: no call offloaded to a worker thread by acall is still in its
\* request/retry loop, and no request is posted from then on.
C35_NoWorkAfterTimeout ==
    wpc \in {"returned", "cleaned"} => lpc \notin {"request"}
-----------------------------------------------------------------------------
(* The join that leaves no image, checked under Spec.                      *)

\* the visual and edit phases are over without a raise
PhasesJoined == fpc \in {"aggregate", "content_wait", "assemble", "done"}
                  \/ (fpc = "error" /\ "content" \in Range(phases))

\* no image of the request has both a visual analysis and an edit plan
NoSurvivor ==
    /\ images # <<>>
    /\ PhasesJoined
    /\ \A id \in Range(images) : ~Matched(visual_by_id, edit_by_id, id)

\* C36: the flow never fails merely because no image survived the join:
\* when the visual and edit phases completed without raising and no image
\* of the request has both a visual analysis and an edit plan, the content
\* phase is still invoked, with batch reports whose image lists are empty,
\* and when it returns its three outputs the flow returns a success report
\* without any per-image block; a failure after the join comes from the
\* content phase raising or from an SEO output that did not parse.
C36_EmptyJoinNotFatal ==
    NoSurvivor =>
      /\ fpc = "aggregate" => ENABLED ContentSubmit
      /\ "content" \in Range(phases) =>
            /\ "content" \in Range(executor_calls)
            /\ images_visual = <<>>
            /\ images_edit_plan = <<>>
      /\ (fpc = "assemble" /\ seo_note # None) => ENABLED Assemble
      /\ fpc = "done" =>
            /\ result = SuccessResult(FinalReport(idea_text, <<>>))
            /\ result.report.plan_ids = <<>>
      /\ fpc = "error" =>
            \/ \E k \in DOMAIN error_counter :
                  error_counter[k][1] \in {"xhs_growth_strategist",
                                           "xhs_content_writer", "xhs_seo_expert"}
            \/ seo_note = None

\* every image has a visual analysis, none has an edit plan, and the flow
\* returned a report
C36_Witness ==
    /\ NoSurvivor
    /\ Range(images) \subseteq DOMAIN visual_by_id
    /\ "edit" \in Range(executor_calls)
    /\ fpc = "done"
    /\ result.error = ""
-----------------------------------------------------------------------------
(* Attribution of per-image results, checked under SpecHarvest.            *)

\* the number of per-image tasks of the harvested batch
PerImageTasks == Len(tasks_output) - 1

\* the requests of as many images as the batch has per-image tasks
RequestsOfBatch == [1..PerImageTasks -> ImageIds]

\* the image_ids of the blocks the final report gets for a request when the
\* harvested map is both the visual and the edit map
ReportBlockIds(imgs) ==
    FinalReport("", Aggregate(imgs, harvested, harvested, 2)).plan_ids

\* C37: per-image results are attributed by the image_id each structured
\* output reports, not by the task that produced it: every entry stored
\* under key X is an output whose own image_id is X; of two outputs of one
\* batch that report the same image_id the later one replaces the earlier,
\* so the map never has more entries than per-image tasks; an output that
\* reports an id outside the request is stored but yields neither an edit
\* task nor a report block.
C37_AttributedByReportedId ==
    (qpc = "harvested" /\ CompleteBatch) =>
      /\ \A k \in DOMAIN harvested :
            /\ harvested[k].image_id = k
            /\ harvested[k].task \in ParsedPositions
            /\ tasks_output[harvested[k].task].pydantic = k
      /\ \A i, j \in ParsedPositions :
            (i < j /\ tasks_output[i].pydantic = tasks_output[j].pydantic) =>
                harvested[tasks_output[i].pydantic].task # i
      /\ \A i \in ParsedPositions : tasks_output[i].pydantic \in DOMAIN harvested
      /\ Cardinality(DOMAIN harvested) <= PerImageTasks
      /\ \A imgs \in RequestsOfBatch :
            \A k \in DOMAIN harvested \ Range(imgs) :
                /\ k \notin Range(EditTaskImages(imgs, harvested))
                /\ k \notin Range(ReportBlockIds(imgs))

\* the output of the first task reports the id of another image and the
\* second task's output reports the same id: one entry, the second's, under
\* an id that a request of two images need not hold
C37_Witness ==
    /\ qpc = "harvested"
    /\ PerImageTasks = 2
    /\ tasks_output[1].pydantic = 2
    /\ tasks_output[2].pydantic = 2
    /\ DOMAIN harvested = {2}
    /\ harvested[2].task = 2
    /\ \E imgs \in RequestsOfBatch : 2 \notin Range(imgs)
====
